---- MODULE Spec2Model ----
(***************************************************************************)
(* msg_net: extraction of entities, relationships and concepts from text   *)
(* (src/src/entity_extractor.rs) and synthesis of the interactive graph    *)
(* (src/src/graph_builder.rs).                                             *)
(*                                                                         *)
(* Representation.  A String is a TLA+ string; byte offsets are 0-based as *)
(* in Rust (all modelled text is ASCII, so bytes and chars coincide).      *)
(* An f64 confidence c is the integer 1000*c.  Option<T> is a record with  *)
(* a boolean field `some`.  Result<T> is a record with a field `tag`.      *)
(***************************************************************************)
EXTENDS Integers, Sequences, FiniteSets, TLC

(***************************************************************************)
(* Bounds of the model.                                                    *)
(***************************************************************************)
MaxSentences == 2      \* sentences of a processed text
MaxReplyLen  == 4      \* lexical tokens of a language-model reply
MaxBand      == 3      \* entities / concepts of a graph handed to the layout
MaxAttrs     == 2      \* non-"name" attributes per entity in such a graph
MaxRng       == 1      \* states of the random generator behind Uuid::new_v4
MaxElapsedMs == 1      \* milliseconds an extraction may be measured to take
MaxExports   == 3      \* exports into one directory

(***************************************************************************)
(* Strings: str::len, indexing, slicing, find, contains, trim,             *)
(* to_lowercase, split_whitespace().count().                               *)
(***************************************************************************)
Min(a, b) == IF a <= b THEN a ELSE b
Max(a, b) == IF a >= b THEN a ELSE b

\* the byte at offset p (0-based) of s
At(s, p) == SubSeq(s, p + 1, p + 1)

\* &s[a..b]
Slice(s, a, b) == SubSeq(s, a + 1, b)

UpperChars == {"A", "B", "C", "D", "E", "F", "G", "H", "I", "J", "K", "L", "M",
               "N", "O", "P", "Q", "R", "S", "T", "U", "V", "W", "X", "Y", "Z"}
LowerChars == {"a", "b", "c", "d", "e", "f", "g", "h", "i", "j", "k", "l", "m",
               "n", "o", "p", "q", "r", "s", "t", "u", "v", "w", "x", "y", "z"}
DigitChars == {"0", "1", "2", "3", "4", "5", "6", "7", "8", "9"}
SpaceChars == {" "}
UpperAlphabet == "ABCDEFGHIJKLMNOPQRSTUVWXYZ"
LowerAlphabet == "abcdefghijklmnopqrstuvwxyz"

\* \w of the regex crate, on ASCII
IsWordChar(c) == c \in UpperChars \cup LowerChars \cup DigitChars \cup {"_"}

\* membership of a character in a regex character class
InClass(c, class) ==
    CASE class = "upper"         -> c \in UpperChars            \* [A-Z]
      [] class = "lower"         -> c \in LowerChars            \* [a-z]
      [] class = "space"         -> c \in SpaceChars            \* \s
      [] class = "word"          -> IsWordChar(c)               \* \w
      [] class = "notCommaDot"   -> c \notin {",", "."}         \* [^,\.]
      [] class = "notCommaSpace" -> c \notin {",", " "}         \* [^,\s]
      [] class = "sentenceEnd"   -> c \in {".", "!", "?"}       \* [.!?]
      [] class = "notSpace"      -> c \notin SpaceChars         \* no white space
      [] OTHER                   -> FALSE

to_lowercase_char(c) ==
    IF c \in UpperChars
    THEN At(LowerAlphabet, (CHOOSE i \in 0..25 : At(UpperAlphabet, i) = c))
    ELSE c

RECURSIVE to_lowercase(_)
to_lowercase(s) ==
    IF s = "" THEN ""
    ELSE to_lowercase_char(At(s, 0)) \o to_lowercase(Slice(s, 1, Len(s)))

\* s[p..] starts with sub
StartsAt(s, sub, p) == p + Len(sub) <= Len(s) /\ Slice(s, p, p + Len(sub)) = sub

\* str::find: the least offset at which sub occurs in s, or -1 (None)
find(s, sub) ==
    IF \E p \in 0..Len(s) : StartsAt(s, sub, p)
    THEN CHOOSE p \in 0..Len(s) :
            StartsAt(s, sub, p) /\ \A q \in 0..(p - 1) : ~StartsAt(s, sub, q)
    ELSE -1

\* str::rfind: the greatest offset at which sub occurs in s, or -1 (None)
rfind(s, sub) ==
    IF \E p \in 0..Len(s) : StartsAt(s, sub, p)
    THEN CHOOSE p \in 0..Len(s) :
            StartsAt(s, sub, p) /\ \A q \in (p + 1)..Len(s) : ~StartsAt(s, sub, q)
    ELSE -1

contains(s, sub) == \E p \in 0..Len(s) : StartsAt(s, sub, p)

RECURSIVE trim_start(_)
trim_start(s) ==
    IF s # "" /\ At(s, 0) \in SpaceChars THEN trim_start(Slice(s, 1, Len(s))) ELSE s

RECURSIVE trim_end(_)
trim_end(s) ==
    IF s # "" /\ At(s, Len(s) - 1) \in SpaceChars
    THEN trim_end(Slice(s, 0, Len(s) - 1)) ELSE s

trim(s) == trim_end(trim_start(s))

\* s.split_whitespace().count(): the number of maximal runs of non-space bytes
split_whitespace_count(s) ==
    Cardinality({p \in 0..(Len(s) - 1) :
        /\ At(s, p) \notin SpaceChars
        /\ (p = 0 \/ At(s, p - 1) \in SpaceChars)})

\* chars().next().unwrap_or(' ')
first_char_or_space(s) == IF s = "" THEN " " ELSE At(s, 0)

(***************************************************************************)
(* Regular expressions of the regex crate (leftmost-first matching: the    *)
(* match a backtracking engine finds, greedy repetition, alternatives in   *)
(* order).  A pattern is a sequence of atoms.                              *)
(***************************************************************************)
Atom(a, s, c, ws, g, cap) == [a |-> a, s |-> s, c |-> c, ws |-> ws, g |-> g, cap |-> cap]
Lit(s)        == Atom("lit", s, "", <<>>, <<>>, 0)      \* a literal
OptLit(s)     == Atom("opt", s, "", <<>>, <<>>, 0)      \* (?:s)?
WB            == Atom("wb", "", "", <<>>, <<>>, 0)      \* \b
One(c)        == Atom("one", "", c, <<>>, <<>>, 0)      \* one byte of a class
Plus(c)       == Atom("plus", "", c, <<>>, <<>>, 0)     \* class+
PlusCap(c, n) == Atom("plus", "", c, <<>>, <<>>, n)     \* (class+), group n
Alt(ws)       == Atom("alt", "", "", ws, <<>>, 0)       \* (?:w1|w2|...)
Star(g)       == Atom("star", "", "", <<>>, g, 0)       \* (?:g)*

\* \b at offset p of s
WordBoundary(s, p) ==
    (p > 0 /\ IsWordChar(At(s, p - 1))) # (p < Len(s) /\ IsWordChar(At(s, p)))

\* the length of the maximal run of bytes of the class from offset p
RECURSIVE RunLen(_, _, _)
RunLen(s, p, class) ==
    IF p < Len(s) /\ InClass(At(s, p), class) THEN 1 + RunLen(s, p + 1, class) ELSE 0

NoMatch == [ok |-> FALSE, end |-> 0, caps |-> <<>>]
NoCaps  == <<[s |-> 0, e |-> 0], [s |-> 0, e |-> 0]>>

\* Match the atoms at offset p of s: the first success in backtracking order.
RECURSIVE MatchAt(_, _, _, _)
RECURSIVE MatchPlus(_, _, _, _, _, _, _)
RECURSIVE MatchAlt(_, _, _, _, _, _)

MatchPlus(rest, s, p, n, cap, caps, class) ==
    \* n bytes of the class first, then n-1, ..., 1
    IF n < 1 THEN NoMatch
    ELSE LET caps2 == IF cap > 0 THEN [caps EXCEPT ![cap] = [s |-> p, e |-> p + n]]
                      ELSE caps
             r == MatchAt(rest, s, p + n, caps2)
         IN IF r.ok THEN r ELSE MatchPlus(rest, s, p, n - 1, cap, caps, class)

MatchAlt(ws, i, rest, s, p, caps) ==
    IF i > Len(ws) THEN NoMatch
    ELSE LET r == IF StartsAt(s, ws[i], p)
                  THEN MatchAt(rest, s, p + Len(ws[i]), caps) ELSE NoMatch
         IN IF r.ok THEN r ELSE MatchAlt(ws, i + 1, rest, s, p, caps)

MatchAt(atoms, s, p, caps) ==
    IF atoms = <<>> THEN [ok |-> TRUE, end |-> p, caps |-> caps]
    ELSE LET h == Head(atoms)
             rest == Tail(atoms)
         IN CASE h.a = "lit" ->
                    IF StartsAt(s, h.s, p) THEN MatchAt(rest, s, p + Len(h.s), caps)
                    ELSE NoMatch
              [] h.a = "opt" ->
                    LET r == IF StartsAt(s, h.s, p)
                             THEN MatchAt(rest, s, p + Len(h.s), caps) ELSE NoMatch
                    IN IF r.ok THEN r ELSE MatchAt(rest, s, p, caps)
              [] h.a = "wb" ->
                    IF WordBoundary(s, p) THEN MatchAt(rest, s, p, caps) ELSE NoMatch
              [] h.a = "one" ->
                    IF p < Len(s) /\ InClass(At(s, p), h.c)
                    THEN MatchAt(rest, s, p + 1, caps) ELSE NoMatch
              [] h.a = "plus" ->
                    MatchPlus(rest, s, p, RunLen(s, p, h.c), h.cap, caps, h.c)
              [] h.a = "alt" -> MatchAlt(h.ws, 1, rest, s, p, caps)
              [] h.a = "star" ->
                    LET r == MatchAt(h.g \o <<h>> \o rest, s, p, caps)
                    IN IF r.ok THEN r ELSE MatchAt(rest, s, p, caps)
              [] OTHER -> NoMatch

\* The leftmost match of the pattern in s starting at or after offset from.
RECURSIVE RegexFind(_, _, _)
RegexFind(pattern, s, from) ==
    IF from > Len(s) THEN [ok |-> FALSE, start |-> 0, end |-> 0, caps |-> <<>>]
    ELSE LET Tried(r) ==
                 IF r.ok THEN [ok |-> TRUE, start |-> from, end |-> r.end, caps |-> r.caps]
                 ELSE RegexFind(pattern, s, from + 1)
         IN Tried(MatchAt(pattern, s, from, NoCaps))

\* Regex::find_iter: the successive non-overlapping matches, left to right
\* (no modelled pattern matches the empty string).
RECURSIVE find_iter_from(_, _, _)
find_iter_from(pattern, s, from) ==
    LET Then(m) ==
            IF ~m.ok THEN <<>>
            ELSE <<m>> \o find_iter_from(pattern, s,
                                         IF m.end > m.start THEN m.end ELSE m.end + 1)
    IN Then(RegexFind(pattern, s, from))

find_iter(pattern, s) == find_iter_from(pattern, s, 0)

\* Regex::is_match
is_match(pattern, s) == RegexFind(pattern, s, 0).ok

\* Regex::captures(s).get(n): the text of group n of the leftmost match
CaptureText(s, m, n) == Slice(s, m.caps[n].s, m.caps[n].e)

(***************************************************************************)
(* ExtractionConfig::default(): the configured patterns.                   *)
(***************************************************************************)
default_entity_patterns ==
    << \* \b[A-Z][a-z]+(?:\s+[A-Z][a-z]+)*\b
       <<WB, One("upper"), Plus("lower"),
         Star(<<Plus("space"), One("upper"), Plus("lower")>>), WB>>,
       \* \b(?:person|people|individual|user|customer|client)\b
       <<WB, Alt(<<"person", "people", "individual", "user", "customer", "client">>), WB>> >>

default_relationship_patterns ==
    << \* \b(?:has|have|is|are|was|were|contains|includes|owns|belongs)\b
       <<WB, Alt(<<"has", "have", "is", "are", "was", "were", "contains", "includes",
                   "owns", "belongs">>), WB>>,
       \* \b(?:connected to|related to|associated with|linked to)\b
       <<WB, Alt(<<"connected to", "related to", "associated with", "linked to">>), WB>> >>

default_concept_patterns ==
    << \* \b(?:concept|idea|principle|theory|method|approach|strategy)\b
       <<WB, Alt(<<"concept", "idea", "principle", "theory", "method", "approach",
                   "strategy">>), WB>>,
       \* \b(?:system|process|workflow|procedure|protocol)\b
       <<WB, Alt(<<"system", "process", "workflow", "procedure", "protocol">>), WB>> >>

llm_model == "llama3.2"

\* the GraphConfig (extraction.use_llm, the patterns, layout, colours)
VARIABLE config

\* EntityExtractor::new(config.extraction): the patterns the extractor holds
entity_patterns == config.extraction.entity_patterns
relationship_patterns == config.extraction.relationship_patterns
concept_patterns == config.extraction.concept_patterns

(***************************************************************************)
(* The data model of entity_extractor.rs.                                  *)
(***************************************************************************)
\* Uuid::new_v4(): the k-th draw of a run whose generator is in state r
Uuid(r, k) == <<r, k>>

NonePos == [some |-> FALSE, start |-> 0, end |-> 0, sentence_index |-> 0]
SomePos(start, end, idx) ==
    [some |-> TRUE, start |-> start, end |-> end, sentence_index |-> idx]

\* EntityType and RelationshipType: a variant tag, and the label of Other(label)
EntityType(tag)       == [tag |-> tag, label |-> ""]
RelationshipType(tag) == [tag |-> tag, label |-> ""]
Other(label)          == [tag |-> "Other", label |-> label]

Attribute(id, name, value, attribute_type, confidence) ==
    [id |-> id, name |-> name, value |-> value, attribute_type |-> attribute_type,
     confidence |-> confidence]

Entity(id, name, entity_type, attributes, confidence, position) ==
    [id |-> id, name |-> name, entity_type |-> entity_type, attributes |-> attributes,
     confidence |-> confidence, position |-> position]

Relationship(id, source, target, relationship_type, label, confidence, position) ==
    [id |-> id, source_entity_id |-> source, target_entity_id |-> target,
     relationship_type |-> relationship_type, label |-> label,
     confidence |-> confidence, position |-> position]

Concept(id, name, description, confidence, position) ==
    [id |-> id, name |-> name, description |-> description, related_entities |-> <<>>,
     confidence |-> confidence, position |-> position]

(***************************************************************************)
(* Pattern-based extraction.  Every extractor takes the generator state r  *)
(* and the number n of uuids drawn so far, and returns its list with the   *)
(* number of uuids drawn after it.                                         *)
(***************************************************************************)
classify_entity_type(entity_text) ==
    LET lower_text == to_lowercase(entity_text)
    IN IF contains(lower_text, "corp") \/ contains(lower_text, "inc")
          \/ contains(lower_text, "company")
       THEN EntityType("Organization")
       ELSE IF first_char_or_space(entity_text) \in UpperChars
               /\ split_whitespace_count(entity_text) <= 3
       THEN EntityType("Person")
       ELSE IF contains(lower_text, "system") \/ contains(lower_text, "process")
               \/ contains(lower_text, "method")
       THEN EntityType("Concept")
       ELSE Other(lower_text)

\* the two description patterns, built around regex::escape(entity)
description_patterns(entity) ==
    << \* {entity},?\s+(?:a|an|the)\s+([^,\.]+)
       <<Lit(entity), OptLit(","), Plus("space"), Alt(<<"a", "an", "the">>),
         Plus("space"), PlusCap("notCommaDot", 1)>>,
       \* (?:a|an|the)\s+([^,\s]+)\s+{entity}
       <<Alt(<<"a", "an", "the">>), Plus("space"), PlusCap("notCommaSpace", 1),
         Plus("space"), Lit(entity)>> >>

\* Option<String>: [some, value]
extract_description_from_context(entity, context) ==
    LET Captured(m) == [some |-> m.ok,
                        value |-> IF m.ok THEN trim(CaptureText(context, m, 1)) ELSE ""]
        First(c1, c2) == IF c1.some THEN c1 ELSE c2
    IN First(Captured(RegexFind(description_patterns(entity)[1], context, 0)),
             Captured(RegexFind(description_patterns(entity)[2], context, 0)))

\* attributes whose confidence is drawn from the random generator
extract_entity_attributes_random(entity_text, context, r, n) ==
    [items |-> <<Attribute(Uuid(r, n), "name", entity_text, "Name", 1000 - r)>>,
     n |-> n + 1]

extract_entity_attributes(entity_text, context, r, n) ==
    LET name_attr == Attribute(Uuid(r, n), "name", entity_text, "Name", 1000)
        With(description) ==
            IF description.some
            THEN [items |-> <<name_attr,
                              Attribute(Uuid(r, n + 1), "description", description.value,
                                        "Description", 700)>>,
                  n |-> n + 2]
            ELSE [items |-> <<name_attr>>, n |-> n + 1]
    IN With(extract_description_from_context(entity_text, context))

\* The matches of the patterns in the sentences, in the order the nested loops
\* visit them: sentences in order, patterns in configured order, matches left
\* to right.
RECURSIVE MatchesOfPatterns(_, _, _, _)
MatchesOfPatterns(patterns, i, sentence, sentence_idx) ==
    IF i > Len(patterns) THEN <<>>
    ELSE LET Matches(ms) ==
                 [k \in 1..Len(ms) |->
                     [text |-> Slice(sentence, ms[k].start, ms[k].end),
                      start |-> ms[k].start, end |-> ms[k].end,
                      sentence_idx |-> sentence_idx, sentence |-> sentence]]
         IN Matches(find_iter(patterns[i], sentence))
            \o MatchesOfPatterns(patterns, i + 1, sentence, sentence_idx)

RECURSIVE MatchesOfText(_, _, _)
MatchesOfText(patterns, sentences, i) ==
    IF i > Len(sentences) THEN <<>>
    ELSE MatchesOfPatterns(patterns, 1, sentences[i], i - 1)
         \o MatchesOfText(patterns, sentences, i + 1)

RECURSIVE EntitiesOfMatches(_, _, _, _, _, _)
EntitiesOfMatches(ms, i, entities, seen_entities, r, n) ==
    IF i > Len(ms) THEN [items |-> entities, n |-> n]
    ELSE LET mat == ms[i]
             entity_text == trim(mat.text)
         IN IF Len(entity_text) < 2 \/ entity_text \in seen_entities
            THEN EntitiesOfMatches(ms, i + 1, entities, seen_entities, r, n)
            ELSE LET Push(entity_type, attributes) ==
                         EntitiesOfMatches(ms, i + 1,
                             Append(entities,
                                    Entity(Uuid(r, attributes.n), entity_text, entity_type,
                                           attributes.items, 700,
                                           SomePos(mat.start, mat.end, mat.sentence_idx))),
                             seen_entities \cup {entity_text}, r, attributes.n + 1)
                 IN Push(classify_entity_type(entity_text),
                         extract_entity_attributes(entity_text, mat.sentence, r, n))

\* the sentences scanned from the last match to the first: the last occurrence
\* of a literal is kept
extract_entities_with_patterns_backwards(processed_text, r, n) ==
    LET Backwards(ms) == [k \in 1..Len(ms) |-> ms[Len(ms) + 1 - k]]
    IN EntitiesOfMatches(Backwards(MatchesOfText(entity_patterns, processed_text.sentences, 1)),
                         1, <<>>, {}, r, n)

extract_entities_with_patterns(processed_text, r, n) ==
    EntitiesOfMatches(MatchesOfText(entity_patterns, processed_text.sentences, 1),
                      1, <<>>, {}, r, n)

classify_relationship_type(text) ==
    LET lower_text == to_lowercase(text)
    IN IF contains(lower_text, "has") \/ contains(lower_text, "have")
          \/ contains(lower_text, "owns")
       THEN RelationshipType("Has")
       ELSE IF contains(lower_text, "is") \/ contains(lower_text, "are")
               \/ contains(lower_text, "was") \/ contains(lower_text, "were")
       THEN RelationshipType("IsA")
       ELSE IF contains(lower_text, "part of") \/ contains(lower_text, "belongs")
       THEN RelationshipType("PartOf")
       ELSE IF contains(lower_text, "connected") \/ contains(lower_text, "linked")
       THEN RelationshipType("ConnectedTo")
       ELSE IF contains(lower_text, "uses") \/ contains(lower_text, "utilizes")
       THEN RelationshipType("Uses")
       ELSE IF contains(lower_text, "creates") \/ contains(lower_text, "generates")
       THEN RelationshipType("Creates")
       ELSE IF contains(lower_text, "influences") \/ contains(lower_text, "affects")
       THEN RelationshipType("Influences")
       ELSE RelationshipType("RelatedTo")

generate_relationship_label(rel_type, entity1, entity2) ==
    CASE rel_type.tag = "Has"         -> entity1 \o " has " \o entity2
      [] rel_type.tag = "IsA"         -> entity1 \o " is a " \o entity2
      [] rel_type.tag = "PartOf"      -> entity1 \o " is part of " \o entity2
      [] rel_type.tag = "ConnectedTo" -> entity1 \o " connected to " \o entity2
      [] rel_type.tag = "RelatedTo"   -> entity1 \o " related to " \o entity2
      [] rel_type.tag = "Contains"    -> entity1 \o " contains " \o entity2
      [] rel_type.tag = "Owns"        -> entity1 \o " owns " \o entity2
      [] rel_type.tag = "Uses"        -> entity1 \o " uses " \o entity2
      [] rel_type.tag = "Creates"     -> entity1 \o " creates " \o entity2
      [] rel_type.tag = "Influences"  -> entity1 \o " influences " \o entity2
      [] OTHER -> entity1 \o " " \o rel_type.label \o " " \o entity2

\* Option<Relationship>: [some, value]; the id is drawn only when one is found
RECURSIVE find_relationship_from(_, _, _, _, _, _, _)
find_relationship_from(i, entity1, entity2, sentence, sentence_idx, r, n) ==
    IF i > Len(relationship_patterns) THEN [some |-> FALSE, value |-> <<>>]
    ELSE LET Found(start, end, relationship_type) ==
                 [some |-> TRUE,
                  value |-> Relationship(Uuid(r, n), entity1.id, entity2.id,
                                         relationship_type,
                                         generate_relationship_label(relationship_type,
                                                                     entity1.name, entity2.name),
                                         600, SomePos(start, end, sentence_idx))]
             Between(start, end, substring) ==
                 IF is_match(relationship_patterns[i], substring)
                 THEN Found(start, end, classify_relationship_type(substring))
                 ELSE find_relationship_from(i + 1, entity1, entity2, sentence,
                                             sentence_idx, r, n)
             Span(start, end) == Between(start, end, Slice(sentence, start, end))
             Both(pos1, pos2) ==
                 IF pos1 >= 0 /\ pos2 >= 0
                 THEN Span(Min(pos1, pos2),
                           Max(pos1 + Len(entity1.name), pos2 + Len(entity2.name)))
                 ELSE find_relationship_from(i + 1, entity1, entity2, sentence,
                                             sentence_idx, r, n)
         IN Both(find(sentence, entity1.name), find(sentence, entity2.name))

find_relationship_between_entities(entity1, entity2, sentence, sentence_idx, r, n) ==
    find_relationship_from(1, entity1, entity2, sentence, sentence_idx, r, n)

\* every entity taken for every sentence
sentence_entities_unfiltered(entities, sentence, sentence_idx) == entities

\* the entities of one sentence, in the order of the entity list
sentence_entities(entities, sentence, sentence_idx) ==
    LET InSentence(e) == IF e.position.some
                         THEN e.position.sentence_index = sentence_idx
                         ELSE contains(sentence, e.name)
    IN SelectSeq(entities, InSentence)

\* the pairs (i, j), i < j, of 1..k in the order of the nested loops
RECURSIVE PairsFrom(_, _, _)
PairsFrom(i, j, k) ==
    IF i >= k THEN <<>>
    ELSE IF j > k THEN PairsFrom(i + 1, i + 2, k)
    ELSE <<[i |-> i, j |-> j]>> \o PairsFrom(i, j + 1, k)

RECURSIVE RelationshipsOfPairs(_, _, _, _, _, _, _, _)
RelationshipsOfPairs(pairs, k, ents, sentence, sentence_idx, relationships, r, n) ==
    IF k > Len(pairs) THEN [items |-> relationships, n |-> n]
    ELSE LET Then(found) ==
                 IF found.some
                 THEN RelationshipsOfPairs(pairs, k + 1, ents, sentence, sentence_idx,
                                           Append(relationships, found.value), r, n + 1)
                 ELSE RelationshipsOfPairs(pairs, k + 1, ents, sentence, sentence_idx,
                                           relationships, r, n)
         IN Then(find_relationship_between_entities(
                     ents[pairs[k].i], ents[pairs[k].j], sentence, sentence_idx, r, n))

RECURSIVE RelationshipsOfSentences(_, _, _, _, _, _)
RelationshipsOfSentences(sentences, i, entities, relationships, r, n) ==
    IF i > Len(sentences) THEN [items |-> relationships, n |-> n]
    ELSE LET Then(step) ==
                 RelationshipsOfSentences(sentences, i + 1, entities, step.items, r, step.n)
             Pairs(ents) ==
                 RelationshipsOfPairs(PairsFrom(1, 2, Len(ents)), 1, ents,
                                      sentences[i], i - 1, relationships, r, n)
         IN Then(Pairs(sentence_entities(entities, sentences[i], i - 1)))

extract_relationships_with_patterns(processed_text, entities, r, n) ==
    RelationshipsOfSentences(processed_text.sentences, 1, entities, <<>>, r, n)

generate_concept_description(concept, context) ==
    "Concept '" \o concept \o "' mentioned in context: "
    \o (IF Len(context) > 100 THEN Slice(context, 0, 100) ELSE context)

RECURSIVE ConceptsOfMatches(_, _, _, _, _, _)
ConceptsOfMatches(ms, i, concepts, seen_concepts, r, n) ==
    IF i > Len(ms) THEN [items |-> concepts, n |-> n]
    ELSE LET mat == ms[i]
             concept_text == trim(mat.text)
         IN IF Len(concept_text) < 3 \/ concept_text \in seen_concepts
            THEN ConceptsOfMatches(ms, i + 1, concepts, seen_concepts, r, n)
            ELSE LET concept == Concept(Uuid(r, n), concept_text,
                                        generate_concept_description(concept_text,
                                                                     mat.sentence),
                                        600,
                                        SomePos(mat.start, mat.end, mat.sentence_idx))
                 IN ConceptsOfMatches(ms, i + 1, Append(concepts, concept),
                                      seen_concepts \cup {concept_text}, r, n + 1)

extract_concepts_with_patterns(processed_text, r, n) ==
    ConceptsOfMatches(MatchesOfText(concept_patterns, processed_text.sentences, 1),
                      1, <<>>, {}, r, n)

(***************************************************************************)
(* The language-model adapter.  A reply text is the sequence of its        *)
(* lexical tokens: "lb" is '[', "rb" is ']', "comma" is ',', "obj" is one  *)
(* JSON object (v: its members) and "txt" is a non-empty run of any other  *)
(* text (prose, white space).  Offsets into a reply count tokens.          *)
(***************************************************************************)
Tok(t)  == [t |-> t, v |-> [none |-> TRUE]]
LB      == Tok("lb")
RB      == Tok("rb")
COMMA   == Tok("comma")
TXT     == Tok("txt")
Obj(v)  == [t |-> "obj", v |-> v]

OkResult(v)  == [tag |-> "Ok", value |-> v, n |-> 0]
ErrResult(e) == [tag |-> "Err", value |-> e, n |-> 0]
Panic        == [tag |-> "Panic", value |-> "slice index starts after its end", n |-> 0]

\* response.find('[') and response.rfind(']') on a token sequence
find_token(response, t) ==
    IF \E i \in 1..Len(response) : response[i].t = t
    THEN (CHOOSE i \in 1..Len(response) :
            response[i].t = t /\ \A j \in 1..(i - 1) : response[j].t # t) - 1
    ELSE -1

rfind_token(response, t) ==
    IF \E i \in 1..Len(response) : response[i].t = t
    THEN (CHOOSE i \in 1..Len(response) :
            response[i].t = t /\ \A j \in (i + 1)..Len(response) : response[j].t # t) - 1
    ELSE -1

\* let json_start = response.find('[').unwrap_or(0);
\* let json_end = response.rfind(']').map(|i| i + 1).unwrap_or(response.len());
\* let json_str = &response[json_start..json_end];   -- panics when start > end
json_start(response) ==
    IF find_token(response, "lb") >= 0 THEN find_token(response, "lb") ELSE 0
\* the slice taken to the end of the response, whatever follows the array
json_end_whole(response) == Len(response)

json_end(response) ==
    IF rfind_token(response, "rb") >= 0 THEN rfind_token(response, "rb") + 1
    ELSE Len(response)
json_slice_panics(response) == json_start(response) > json_end(response)
json_str(response) == SubSeq(response, json_start(response) + 1, json_end(response))

\* serde_json::from_str::<Vec<T>>: the text must be exactly one array whose
\* elements are objects having every field of T (unknown members are ignored)
IsElementList(toks, fields) ==
    \/ toks = <<>>
    \/ /\ Len(toks) % 2 = 1
       /\ \A i \in 1..Len(toks) :
            IF i % 2 = 1 THEN toks[i].t = "obj" /\ fields \subseteq DOMAIN toks[i].v
            ELSE toks[i].t = "comma"

serde_json_from_str(toks, fields) ==
    IF /\ Len(toks) >= 2
       /\ toks[1].t = "lb"
       /\ toks[Len(toks)].t = "rb"
       /\ IsElementList(SubSeq(toks, 2, Len(toks) - 1), fields)
    THEN LET inner == SubSeq(toks, 2, Len(toks) - 1)
         IN OkResult([k \in 1..((Len(inner) + 1) \div 2) |-> inner[2 * k - 1].v])
    ELSE ErrResult("EntityExtraction")

LlmEntityFields       == {"name", "type", "confidence"}
LlmRelationshipFields == {"from", "to", "relationship", "confidence"}
LlmConceptFields      == {"name", "description", "confidence"}

\* the match on the type string as it was sent, not on its lower-case form
llm_entity_type_exact(entity_type) ==
    CASE entity_type = "person"       -> EntityType("Person")
      [] entity_type = "place"        -> EntityType("Place")
      [] entity_type = "organization" -> EntityType("Organization")
      [] entity_type = "system"       -> Other("System")
      [] entity_type = "process"      -> Other("Process")
      [] entity_type = "concept"      -> Other("Concept")
      [] OTHER                        -> Other(entity_type)

llm_entity_type(entity_type) ==
    LET lower == to_lowercase(entity_type)
    IN CASE lower = "person"       -> EntityType("Person")
         [] lower = "place"        -> EntityType("Place")
         [] lower = "organization" -> EntityType("Organization")
         [] lower = "system"       -> Other("System")
         [] lower = "process"      -> Other("Process")
         [] lower = "concept"      -> Other("Concept")
         [] OTHER                  -> Other(entity_type)

parse_entities_from_llm_response(response, r, n) ==
    IF json_slice_panics(response) THEN Panic
    ELSE LET Entities(llm_entities) ==
                 [tag |-> "Ok",
                  value |-> [k \in 1..Len(llm_entities) |->
                     Entity(Uuid(r, n + 2 * (k - 1)),
                            llm_entities[k].name,
                            llm_entity_type(llm_entities[k].type),
                            <<Attribute(Uuid(r, n + 2 * (k - 1) + 1),
                                        "extraction_method", "LLM", "Other(method)", 1000)>>,
                            llm_entities[k].confidence,
                            NonePos)],
                  n |-> n + 2 * Len(llm_entities)]
             Parsed(parsed) == IF parsed.tag = "Err" THEN parsed ELSE Entities(parsed.value)
         IN Parsed(serde_json_from_str(json_str(response), LlmEntityFields))

\* entities.iter().map(|e| (e.name.to_lowercase(), e)).collect::<HashMap>().get(name):
\* the last entity of the list with that lower-cased name
lookup_entity(entities, lower_name) ==
    LET hits == {i \in 1..Len(entities) : to_lowercase(entities[i].name) = lower_name}
    IN IF hits = {} THEN [some |-> FALSE, value |-> <<>>]
       ELSE [some |-> TRUE,
             value |-> entities[CHOOSE i \in hits : \A j \in hits : j <= i]]

RECURSIVE RelationshipsOfLlm(_, _, _, _, _, _)
RelationshipsOfLlm(llm_relationships, k, entities, relationships, r, n) ==
    IF k > Len(llm_relationships) THEN [tag |-> "Ok", value |-> relationships, n |-> n]
    ELSE LET llm_rel == llm_relationships[k]
             Then(from_entity, to_entity) ==
                 IF from_entity.some /\ to_entity.some
                 THEN RelationshipsOfLlm(llm_relationships, k + 1, entities,
                         Append(relationships,
                                Relationship(Uuid(r, n), from_entity.value.id,
                                             to_entity.value.id,
                                             Other(llm_rel.relationship), llm_rel.relationship,
                                             llm_rel.confidence, NonePos)),
                         r, n + 1)
                 ELSE RelationshipsOfLlm(llm_relationships, k + 1, entities,
                                         relationships, r, n)
         IN Then(lookup_entity(entities, to_lowercase(llm_rel.from)),
                 lookup_entity(entities, to_lowercase(llm_rel.to)))

parse_relationships_from_llm_response(response, entities, r, n) ==
    IF json_slice_panics(response) THEN Panic
    ELSE LET Parsed(parsed) ==
                 IF parsed.tag = "Err" THEN parsed
                 ELSE RelationshipsOfLlm(parsed.value, 1, entities, <<>>, r, n)
         IN Parsed(serde_json_from_str(json_str(response), LlmRelationshipFields))

parse_concepts_from_llm_response(response, r, n) ==
    IF json_slice_panics(response) THEN Panic
    ELSE LET Concepts(llm_concepts) ==
                 [tag |-> "Ok",
                  value |-> [k \in 1..Len(llm_concepts) |->
                     Concept(Uuid(r, n + k - 1), llm_concepts[k].name,
                             llm_concepts[k].description, llm_concepts[k].confidence,
                             NonePos)],
                  n |-> n + Len(llm_concepts)]
             Parsed(parsed) == IF parsed.tag = "Err" THEN parsed ELSE Concepts(parsed.value)
         IN Parsed(serde_json_from_str(json_str(response), LlmConceptFields))

(***************************************************************************)
(* Deep analysis, phases 2 to 4.                                           *)
(***************************************************************************)
VerbPattern(words) ==
    <<PlusCap("word", 1), Plus("space")>> \o words \o <<Plus("space"), PlusCap("word", 2)>>

enhanced_patterns ==
    << \* (\w+)\s+manages?\s+(\w+)
       [pattern |-> VerbPattern(<<Lit("manage"), OptLit("s")>>), label |-> "manages"],
       \* (\w+)\s+depends?\s+on\s+(\w+)
       [pattern |-> VerbPattern(<<Lit("depend"), OptLit("s"), Plus("space"), Lit("on")>>),
        label |-> "depends_on"],
       \* (\w+)\s+implements?\s+(\w+)
       [pattern |-> VerbPattern(<<Lit("implement"), OptLit("s")>>), label |-> "implements"],
       \* (\w+)\s+inherits?\s+from\s+(\w+)
       [pattern |-> VerbPattern(<<Lit("inherit"), OptLit("s"), Plus("space"), Lit("from")>>),
        label |-> "inherits_from"],
       \* (\w+)\s+communicates?\s+with\s+(\w+)
       [pattern |-> VerbPattern(<<Lit("communicate"), OptLit("s"), Plus("space"),
                                  Lit("with")>>),
        label |-> "communicates_with"],
       \* (\w+)\s+provides?\s+(\w+)
       [pattern |-> VerbPattern(<<Lit("provide"), OptLit("s")>>), label |-> "provides"],
       \* (\w+)\s+requires?\s+(\w+)
       [pattern |-> VerbPattern(<<Lit("require"), OptLit("s")>>), label |-> "requires"] >>

RECURSIVE RelationshipsOfCaptures(_, _, _, _, _, _, _, _)
RelationshipsOfCaptures(ms, k, text, label, entities, relationships, r, n) ==
    IF k > Len(ms) THEN [items |-> relationships, n |-> n]
    ELSE LET Then(entity1, entity2) ==
                 IF entity1.some /\ entity2.some
                 THEN RelationshipsOfCaptures(ms, k + 1, text, label, entities,
                         Append(relationships,
                                Relationship(Uuid(r, n), entity1.value.id, entity2.value.id,
                                             Other(label), label, 750, NonePos)),
                         r, n + 1)
                 ELSE RelationshipsOfCaptures(ms, k + 1, text, label, entities,
                                              relationships, r, n)
         IN Then(lookup_entity(entities, CaptureText(text, ms[k], 1)),
                 lookup_entity(entities, CaptureText(text, ms[k], 2)))

RECURSIVE RelationshipsOfEnhanced(_, _, _, _, _, _)
RelationshipsOfEnhanced(i, text, entities, relationships, r, n) ==
    IF i > Len(enhanced_patterns) THEN [items |-> relationships, n |-> n]
    ELSE LET Then(step) ==
                 RelationshipsOfEnhanced(i + 1, text, entities, step.items, r, step.n)
         IN Then(RelationshipsOfCaptures(find_iter(enhanced_patterns[i].pattern, text),
                                         1, text, enhanced_patterns[i].label,
                                         entities, relationships, r, n))

extract_relationships_with_enhanced_patterns(processed_text, entities, r, n) ==
    RelationshipsOfEnhanced(1, to_lowercase(processed_text.cleaned_text), entities,
                            <<>>, r, n)

\* the prompt is built and dropped; the enhanced patterns do the work
extract_deep_relationships_with_llm(processed_text, entities, r, n) ==
    extract_relationships_with_enhanced_patterns(processed_text, entities, r, n)

role_patterns ==
    << [pattern |-> "manager", role |-> "management_role"],
       [pattern |-> "developer", role |-> "technical_role"],
       [pattern |-> "customer", role |-> "business_role"],
       [pattern |-> "user", role |-> "user_role"],
       [pattern |-> "system", role |-> "system_component"],
       [pattern |-> "process", role |-> "business_process"] >>

domain_patterns ==
    << [pattern |-> "database", domain |-> "data_management"],
       [pattern |-> "server", domain |-> "infrastructure"],
       [pattern |-> "application", domain |-> "software"],
       [pattern |-> "network", domain |-> "networking"],
       [pattern |-> "security", domain |-> "cybersecurity"] >>

\* HashMap<String, String> with the keys "role" and "domain": a set of
\* [key, value] entries, at most one per key
analyze_entity_context(processed_text, entity_name) ==
    LET text == to_lowercase(processed_text.cleaned_text)
        entity_lower == to_lowercase(entity_name)
        RoleHit(i) == \/ contains(text, entity_lower \o " " \o role_patterns[i].pattern)
                      \/ contains(text, role_patterns[i].pattern \o " " \o entity_lower)
        role_hits == {i \in 1..Len(role_patterns) : RoleHit(i)}
        domain_hits == {i \in 1..Len(domain_patterns) :
                            contains(text, domain_patterns[i].pattern)}
        First(hits) == CHOOSE i \in hits : \A j \in hits : i <= j
    IN (IF role_hits = {} THEN {}
        ELSE {[key |-> "role", value |-> role_patterns[First(role_hits)].role]})
       \cup
       (IF domain_hits = {} THEN {}
        ELSE {[key |-> "domain", value |-> domain_patterns[First(domain_hits)].domain]})

context_get(context_info, key) ==
    IF \E kv \in context_info : kv.key = key
    THEN [some |-> TRUE, value |-> (CHOOSE kv \in context_info : kv.key = key).value]
    ELSE [some |-> FALSE, value |-> ""]

RECURSIVE enhance_from(_, _, _, _, _, _)
enhance_from(processed_text, entities, k, out, r, n) ==
    IF k > Len(entities) THEN [items |-> out, n |-> n]
    ELSE LET entity == entities[k]
             WithRole(role, attrs) ==
                 IF role.some
                 THEN [items |-> Append(attrs,
                                        Attribute(Uuid(r, n), "contextual_role", role.value,
                                                  "Other(role)", 700)),
                       n |-> n + 1]
                 ELSE [items |-> attrs, n |-> n]
             WithDomain(domain, a) ==
                 IF domain.some
                 THEN [items |-> Append(a.items,
                                        Attribute(Uuid(r, a.n), "domain", domain.value,
                                                  "Other(domain)", 700)),
                       n |-> a.n + 1]
                 ELSE a
             Boosted(context_info) ==
                 IF Cardinality(context_info) > 2
                 THEN Min((entity.confidence * 12) \div 10, 1000)
                 ELSE entity.confidence
             Push(attrs, confidence) ==
                 enhance_from(processed_text, entities, k + 1,
                              Append(out, [entity EXCEPT !.attributes = attrs.items,
                                                         !.confidence = confidence]),
                              r, attrs.n)
             Enhance(context_info) ==
                 Push(WithDomain(context_get(context_info, "domain"),
                                 WithRole(context_get(context_info, "role"),
                                          entity.attributes)),
                      Boosted(context_info))
         IN Enhance(analyze_entity_context(processed_text, entity.name))

\* phase 3 raising the confidence of every entity, whatever its context
enhance_entities_with_context_boosting(processed_text, entities, r, n) ==
    [items |-> [k \in 1..Len(entities) |->
                   [entities[k] EXCEPT !.confidence = Min((@ * 12) \div 10, 1000)]],
     n |-> n]

enhance_entities_with_context(processed_text, entities, r, n) ==
    enhance_from(processed_text, entities, 1, <<>>, r, n)

RECURSIVE ConceptRelationships(_, _, _, _, _, _, _)
ConceptRelationships(concepts, entities, i, j, relationships, r, n) ==
    IF i > Len(concepts) THEN [items |-> relationships, n |-> n]
    ELSE IF j > Len(entities)
    THEN ConceptRelationships(concepts, entities, i + 1, 1, relationships, r, n)
    ELSE IF contains(to_lowercase(concepts[i].description), to_lowercase(entities[j].name))
    THEN ConceptRelationships(concepts, entities, i, j + 1,
            Append(relationships,
                   Relationship(Uuid(r, n), concepts[i].id, entities[j].id,
                                RelationshipType("RelatedTo"), "relates to", 650, NonePos)),
            r, n + 1)
    ELSE ConceptRelationships(concepts, entities, i, j + 1, relationships, r, n)

extract_concept_relationships(concepts, entities, r, n) ==
    ConceptRelationships(concepts, entities, 1, 1, <<>>, r, n)

(***************************************************************************)
(* graph_builder.rs.  A node size is the integer 100000 * size, an edge    *)
(* width the integer 1000 * width.  A coordinate is a record: kind "lin"   *)
(* is the number v / 2 (the hierarchical layout places nodes on half       *)
(* multiples of the spacing); kinds "cos" and "sin" are v * cos(2*pi*i/n)  *)
(* and v * sin(2*pi*i/n) (the circular layout).                            *)
(***************************************************************************)
GraphConfig(use_llm, algorithm, spacing) ==
    [node_colors |-> [entity |-> "#FF6B6B", relationship |-> "#4ECDC4",
                      concept |-> "#45B7D1", attribute |-> "#FFA07A"],
     node_shapes |-> [entity |-> "ellipse", relationship |-> "box",
                      concept |-> "circle", attribute |-> "diamond"],
     layout |-> [algorithm |-> algorithm, spacing |-> spacing],
     extraction |-> [use_llm |-> use_llm, llm_model |-> llm_model,
                     entity_patterns |-> default_entity_patterns,
                     relationship_patterns |-> default_relationship_patterns,
                     concept_patterns |-> default_concept_patterns]]

NoCoord         == [some |-> FALSE, kind |-> "lin", v |-> 0, i |-> 0, n |-> 1]
Lin(v2)         == [some |-> TRUE, kind |-> "lin", v |-> v2, i |-> 0, n |-> 1]
Polar(kind, radius, i, n) == [some |-> TRUE, kind |-> kind, v |-> radius, i |-> i, n |-> n]

EmptyMap == [k \in {} |-> 0]

\* *map.entry(key).or_insert(0) += 1
Bump(map, key) ==
    IF key \in DOMAIN map THEN [map EXCEPT ![key] = @ + 1] ELSE map @@ (key :> 1)

\* format!("{:?}", entity_type)
DebugType(t) == IF t.tag = "Other" THEN "Other(\"" \o t.label \o "\")" ELSE t.tag

calculate_node_size(confidence, attributes) ==
    150 * (2000 + confidence) * (10 + Len(attributes))

calculate_concept_node_size(confidence, related_entities_count) ==
    (25 * (10000 + 3 * confidence) * (100 + 15 * related_entities_count)) \div 10

calculate_edge_width(confidence) == 1000 + confidence * 2

\* iter().map(|attr| (name, value)).collect::<HashMap>(): the last value per name
AttributeMap(attributes) ==
    [name \in {attributes[i].name : i \in 1..Len(attributes)} |->
        attributes[CHOOSE i \in 1..Len(attributes) :
            /\ attributes[i].name = name
            /\ \A j \in (i + 1)..Len(attributes) : attributes[j].name # name].value]

PositionInText(position) ==
    [some |-> position.some, start |-> position.start, end |-> position.end]

GraphNode(id, label, node_type, color, shape, size, metadata) ==
    [id |-> id, label |-> label, node_type |-> node_type, color |-> color,
     shape |-> shape, size |-> size, x |-> NoCoord, y |-> NoCoord, physics |-> TRUE,
     metadata |-> metadata]

create_entity_node(cfg, entity) ==
    GraphNode(entity.id, entity.name, "Entity", cfg.node_colors.entity,
              cfg.node_shapes.entity,
              calculate_node_size(entity.confidence, entity.attributes),
              [confidence |-> entity.confidence, original_text |-> entity.name,
               entity_type |-> DebugType(entity.entity_type),
               attributes |-> AttributeMap(entity.attributes),
               position_in_text |-> PositionInText(entity.position)])

create_concept_node(cfg, concept) ==
    GraphNode(concept.id, concept.name, "Concept", cfg.node_colors.concept,
              cfg.node_shapes.concept,
              calculate_concept_node_size(concept.confidence, Len(concept.related_entities)),
              [confidence |-> concept.confidence, original_text |-> concept.name,
               entity_type |-> "concept",
               attributes |-> [k \in {"description", "related_entities_count"} |->
                                IF k = "description" THEN concept.description
                                ELSE ToString(Len(concept.related_entities))],
               position_in_text |-> PositionInText(concept.position)])

create_attribute_node(cfg, entity, attribute) ==
    GraphNode(attribute.id, attribute.name \o ": " \o attribute.value, "Attribute",
              cfg.node_colors.attribute, cfg.node_shapes.attribute,
              2000000,
              [confidence |-> attribute.confidence, original_text |-> attribute.value,
               entity_type |-> attribute.attribute_type,
               attributes |-> [k \in {"attribute_name", "parent_entity"} |->
                                IF k = "attribute_name" THEN attribute.name
                                ELSE entity.name],
               position_in_text |-> PositionInText(NonePos)])

GraphEdge(id, from, to, label, color, width, edge_type, metadata) ==
    [id |-> id, from |-> from, to |-> to, label |-> label, color |-> color,
     width |-> width, arrows |-> "to", edge_type |-> edge_type, metadata |-> metadata]

create_relationship_edge(cfg, relationship) ==
    GraphEdge(relationship.id, relationship.source_entity_id,
              relationship.target_entity_id, relationship.label,
              cfg.node_colors.relationship,
              calculate_edge_width(relationship.confidence), "EntityRelationship",
              [confidence |-> relationship.confidence,
               relationship_type |-> DebugType(relationship.relationship_type),
               bidirectional |-> FALSE, weight |-> relationship.confidence])

\* the id is format!("{}-{}", entity.id, attribute.id): the pair of the two ids
create_attribute_edge(entity, attribute) ==
    GraphEdge(<<entity.id, attribute.id>>, entity.id, attribute.id, "has", "#888888",
              1000, "EntityAttribute",
              [confidence |-> attribute.confidence, relationship_type |-> "has_attribute",
               bidirectional |-> FALSE, weight |-> attribute.confidence])

create_concept_entity_edge(concept, entity) ==
    GraphEdge(<<concept.id, entity.id>>, concept.id, entity.id, "relates to", "#CCCCCC",
              1000, "ConceptEntity",
              [confidence |-> (concept.confidence + entity.confidence) \div 2,
               relationship_type |-> "related_to", bidirectional |-> TRUE,
               weight |-> 500])

\* usize::abs_diff
abs_diff(a, b) == IF a >= b THEN a - b ELSE b - a

\* the text match alone, whatever the positions
should_connect_by_text_match(concept, entity) ==
    \/ contains(to_lowercase(concept.description), to_lowercase(entity.name))
    \/ contains(to_lowercase(entity.name), to_lowercase(concept.name))

should_connect_concept_to_entity(concept, entity) ==
    IF concept.position.some /\ entity.position.some
    THEN abs_diff(concept.position.sentence_index, entity.position.sentence_index) <= 1
    ELSE \/ contains(to_lowercase(concept.description), to_lowercase(entity.name))
         \/ contains(to_lowercase(entity.name), to_lowercase(concept.name))

\* The accumulators of build_graph: nodes, edges and the two histograms.
EmptyGraph == [nodes |-> <<>>, edges |-> <<>>, node_types |-> EmptyMap,
               edge_types |-> EmptyMap]

PushNode(g, node, key) ==
    [g EXCEPT !.node_types = Bump(@, key), !.nodes = Append(@, node)]

\* an edge pushed without its histogram update
PushEdgeUncounted(g, edge, key) == [g EXCEPT !.edges = Append(@, edge)]

PushEdge(g, edge, key) ==
    [g EXCEPT !.edge_types = Bump(@, key), !.edges = Append(@, edge)]

\* build_graph with the loop over the attributes left out
AddAttributesSkipped(g, cfg, entity, attributes, k) == g

RECURSIVE AddAttributes(_, _, _, _, _)
AddAttributes(g, cfg, entity, attributes, k) ==
    IF k > Len(attributes) THEN g
    ELSE IF attributes[k].name # "name"
    THEN AddAttributes(
            PushEdge(PushNode(g, create_attribute_node(cfg, entity, attributes[k]),
                              "attribute"),
                     create_attribute_edge(entity, attributes[k]), "entity_attribute"),
            cfg, entity, attributes, k + 1)
    ELSE AddAttributes(g, cfg, entity, attributes, k + 1)

RECURSIVE AddEntities(_, _, _, _)
AddEntities(g, cfg, entities, k) ==
    IF k > Len(entities) THEN g
    ELSE AddEntities(
            AddAttributes(PushNode(g, create_entity_node(cfg, entities[k]), "entity"),
                          cfg, entities[k], entities[k].attributes, 1),
            cfg, entities, k + 1)

\* build_graph with the loop over the concepts left out
AddConceptsSkipped(g, cfg, concepts, k) == g

RECURSIVE AddConcepts(_, _, _, _)
AddConcepts(g, cfg, concepts, k) ==
    IF k > Len(concepts) THEN g
    ELSE AddConcepts(PushNode(g, create_concept_node(cfg, concepts[k]), "concept"),
                     cfg, concepts, k + 1)

RECURSIVE AddRelationships(_, _, _, _)
AddRelationships(g, cfg, relationships, k) ==
    IF k > Len(relationships) THEN g
    ELSE AddRelationships(
            PushEdge(g, create_relationship_edge(cfg, relationships[k]), "relationship"),
            cfg, relationships, k + 1)

RECURSIVE create_concept_entity_connections(_, _, _, _, _)
create_concept_entity_connections(g, concepts, entities, i, j) ==
    IF i > Len(concepts) THEN g
    ELSE IF j > Len(entities)
    THEN create_concept_entity_connections(g, concepts, entities, i + 1, 1)
    ELSE IF should_connect_concept_to_entity(concepts[i], entities[j])
    THEN create_concept_entity_connections(
            PushEdge(g, create_concept_entity_edge(concepts[i], entities[j]),
                     "concept_entity"),
            concepts, entities, i, j + 1)
    ELSE create_concept_entity_connections(g, concepts, entities, i, j + 1)

GraphMetadata(g, source_text) ==
    [total_nodes |-> Len(g.nodes), total_edges |-> Len(g.edges),
     node_types |-> g.node_types, edge_types |-> g.edge_types,
     creation_timestamp |-> "now", source_text_length |-> Len(source_text)]

build_graph(cfg, extraction_result, source_text) ==
    LET InteractiveGraph(g) ==
            [nodes |-> g.nodes, edges |-> g.edges, config |-> cfg,
             metadata |-> GraphMetadata(g, source_text)]
    IN InteractiveGraph(
           create_concept_entity_connections(
               AddRelationships(
                   AddConcepts(
                       AddEntities(EmptyGraph, cfg, extraction_result.entities, 1),
                       cfg, extraction_result.concepts, 1),
                   cfg, extraction_result.relationships, 1),
               extraction_result.concepts, extraction_result.entities, 1, 1))

(***************************************************************************)
(* The layout engine.                                                      *)
(***************************************************************************)
\* the number of nodes of the type among the first k nodes
CountOfType(nodes, node_type, k) ==
    Cardinality({j \in 1..k : nodes[j].node_type = node_type})

\* the y of a band, doubled
BandY(node_type) ==
    CASE node_type = "Entity"    -> 2 * (-200)
      [] node_type = "Concept"   -> 0
      [] node_type = "Attribute" -> 2 * 200

\* x = (i as f64 - count as f64 / 2.0) * spacing, doubled
BandX(i, count, spacing) == (2 * i - count) * spacing

\* a hierarchical layout that also switches the physics of the nodes off
apply_hierarchical_layout_frozen(graph) ==
    [graph EXCEPT !.nodes =
        [k \in 1..Len(graph.nodes) |->
            [graph.nodes[k] EXCEPT !.x = Lin(0), !.y = Lin(0), !.physics = FALSE]]]

apply_hierarchical_layout(graph) ==
    LET nodes == graph.nodes
        Placed(k) ==
            LET node == nodes[k]
                i == CountOfType(nodes, node.node_type, k - 1)
                count == CountOfType(nodes, node.node_type, Len(nodes))
            IN IF node.node_type \in {"Entity", "Concept", "Attribute"}
               THEN [node EXCEPT !.x = Lin(BandX(i, count, graph.config.layout.spacing)),
                                 !.y = Lin(BandY(node.node_type))]
               ELSE node
    IN [graph EXCEPT !.nodes = [k \in 1..Len(nodes) |-> Placed(k)]]

\* a force layout that pins every node at the origin
apply_force_layout_pinned(graph) ==
    [graph EXCEPT !.nodes =
        [k \in 1..Len(graph.nodes) |->
            [graph.nodes[k] EXCEPT !.x = Lin(0), !.y = Lin(0)]]]

apply_force_layout(graph) == graph

\* a circular layout whose first node sits one angle step after angle 0
apply_circular_layout_one_based(graph) ==
    [graph EXCEPT !.nodes =
        [k \in 1..Len(graph.nodes) |->
            [graph.nodes[k] EXCEPT !.x = Polar("cos", 300, k, Len(graph.nodes)),
                                   !.y = Polar("sin", 300, k, Len(graph.nodes))]]]

apply_circular_layout(graph) ==
    LET node_count == Len(graph.nodes)
    IN IF node_count = 0 THEN graph
       ELSE [graph EXCEPT !.nodes =
                [k \in 1..node_count |->
                    [graph.nodes[k] EXCEPT !.x = Polar("cos", 300, k - 1, node_count),
                                           !.y = Polar("sin", 300, k - 1, node_count)]]]

apply_layout(graph) ==
    CASE graph.config.layout.algorithm = "hierarchical" -> apply_hierarchical_layout(graph)
      [] graph.config.layout.algorithm = "force"        -> apply_force_layout(graph)
      [] graph.config.layout.algorithm = "circular"     -> apply_circular_layout(graph)
      [] OTHER                                          -> apply_force_layout(graph)

(***************************************************************************)
(* export.rs.  A path is a string with '/' as separator; the directory     *)
(* 0_networks is the function files from the paths of its files to their   *)
(* content.                                                                *)
(***************************************************************************)
\* Path::file_name: the last component; None for no component and for ".."
file_name(path) ==
    LET Last(i) == IF i < 0 THEN path ELSE Slice(path, i + 1, Len(path))
        Named(name) == IF name = "" \/ name = ".." THEN [some |-> FALSE, value |-> ""]
                       ELSE [some |-> TRUE, value |-> name]
    IN Named(Last(rfind(path, "/")))

\* Path::file_stem: the file name up to its last '.', the whole name when it
\* has no '.' or only a leading one
file_stem(name) ==
    LET Upto(i) == IF i <= 0 THEN name ELSE Slice(name, 0, i)
    IN Upto(rfind(name, "."))

\* Path::extension: the file name after its last '.', None when it has no
\* '.' or only a leading one
extension(name) ==
    LET From(i) == IF i <= 0 THEN [some |-> FALSE, value |-> ""]
                   ELSE [some |-> TRUE, value |-> Slice(name, i + 1, Len(name))]
    IN From(rfind(name, "."))

\* format!("{:02}", counter), counter < 100
two_digits(counter) ==
    At("0123456789", counter \div 10) \o At("0123456789", counter % 10)

networks_dir == "0_networks"

\* networks_dir.join(name)
join(dir, name) == dir \o "/" \o name

\* the while loop of create_output_path: the first path that does not exist
RECURSIVE serialized_path(_, _, _, _, _)
serialized_path(dir, output_path, stem, ext, counter) ==
    IF output_path \in DOMAIN dir
    THEN serialized_path(dir, join(networks_dir,
                                   stem \o "_" \o two_digits(counter + 1) \o "." \o ext),
                         stem, ext, counter + 1)
    ELSE output_path

\* the path of the requested file name in 0_networks, whether it exists or not
create_output_path_unserialized(dir, requested_path) ==
    IF file_name(requested_path).some /\ extension(file_name(requested_path).value).some
    THEN OkResult(join(networks_dir, file_name(requested_path).value))
    ELSE ErrResult("Export")

create_output_path(dir, requested_path) ==
    LET Named(filename) ==
            IF ~filename.some THEN ErrResult("Export")
            ELSE IF ~extension(filename.value).some THEN ErrResult("Export")
            ELSE OkResult(serialized_path(dir, join(networks_dir, filename.value),
                                          file_stem(filename.value),
                                          extension(filename.value).value, 0))
    IN Named(file_name(requested_path))

\* fs::write: the file is created, or truncated and rewritten
fs_write(dir, path, content) ==
    [p \in DOMAIN dir \cup {path} |-> IF p = path THEN content ELSE dir[p]]

ExportFormats == {"Html", "Json"}

default_path(format) == IF format = "Html" THEN "graph.html" ELSE "graph.json"

\* export_to_html, export_to_json: the path, the content, the write
export_graph(dir, g, format, file_path) ==
    LET content == [exported_format |-> format,
                    original_graph_nodes |-> Len(g.nodes),
                    original_graph_edges |-> Len(g.edges)]
        Written(output_path) ==
            IF output_path.tag = "Err"
            THEN [files |-> dir,
                  result |-> [tag |-> "Err", file_path |-> "", content |-> content]]
            ELSE [files |-> fs_write(dir, output_path.value, content),
                  result |-> [tag |-> "Ok", file_path |-> output_path.value,
                              content |-> content]]
    IN Written(create_output_path(dir, IF file_path.some THEN file_path.value
                                       ELSE default_path(format)))

(***************************************************************************)
(* Inputs.                                                                 *)
(***************************************************************************)
SentencePool ==
    {"Alice has Bob", "Bob, a user, uses the system", "Bob manages Alice",
     "The manager Bob runs a server"}

RECURSIVE JoinSentences(_, _)
JoinSentences(sentences, k) ==
    IF k > Len(sentences) THEN ""
    ELSE sentences[k] \o "." \o (IF k < Len(sentences) THEN " " ELSE "")
         \o JoinSentences(sentences, k + 1)

\* The ProcessedText that process_text returns, stopword removal disabled,
\* for the text made of the sentences, each ended by a full stop.
ProcessedText(sentences) ==
    [original_text |-> JoinSentences(sentences, 1), sentences |-> sentences,
     cleaned_text |-> JoinSentences(sentences, 1)]

ProcessedTexts ==
    {ProcessedText(ss) : ss \in UNION {[1..k -> SentencePool] : k \in 0..MaxSentences}}

\* JSON objects a language model may answer with
eBob   == Obj([name |-> "Bob", type |-> "Person", confidence |-> 800])
eAlice == Obj([name |-> "Alice", type |-> "Robot", confidence |-> 1500])
rKnows == Obj([from |-> "bob", to |-> "ALICE", relationship |-> "knows",
               confidence |-> 900])
rSelf  == Obj([from |-> "Bob", to |-> "Bob", relationship |-> "is", confidence |-> 2000])
rCarol == Obj([from |-> "Bob", to |-> "Carol", relationship |-> "likes",
               confidence |-> 500])
cPlan  == Obj([name |-> "planning", description |-> "what Bob does", confidence |-> 900])
cRisk  == Obj([name |-> "risk", description |-> "unknown", confidence |-> -500])
oShort == Obj([name |-> "Bob"])

\* Reply texts of the endpoint to the entity, relationship and concept prompts
EntityReplies ==
    { <<TXT, LB, RB>>,                                 \* Sure! [ ]
      <<LB, eBob, RB>>,
      <<LB, eBob, COMMA, eAlice, RB, TXT>>,
      <<LB, eBob, COMMA, eBob, RB>>,
      <<LB, eBob, COMMA>>,                             \* truncated JSON
      <<RB, TXT, LB>> }                                \* ']' before the only '['

RelationshipReplies ==
    { <<LB, rKnows, COMMA, rSelf, COMMA, rCarol, RB>>,
      <<TXT, LB, RB>>,
      <<TXT>>,
      <<RB, TXT, LB>> }

ConceptReplies ==
    { <<LB, cPlan, COMMA, cRisk, RB>>,
      <<LB, RB, TXT>>,
      <<LB, cPlan, TXT>>,
      <<RB, TXT, LB>> }

\* The errors of call_ollama: the request fails, the status is no success,
\* the body is no OllamaResponse.
CallErrors == {"request failed", "error status", "undecodable body"}

\* The token sequences of at most n tokens over the alphabet
SeqsUpTo(alphabet, n) == UNION {[1..k -> alphabet] : k \in 0..n}

ReplyAlphabet(kind) ==
    {LB, RB, COMMA, TXT, oShort,
     CASE kind = "entities" -> eBob [] kind = "relationships" -> rSelf [] OTHER -> cPlan}

(***************************************************************************)
(* The state.                                                              *)
(***************************************************************************)
VARIABLES
    processed_text,  \* the ProcessedText under extraction
    rng,             \* the state of the random generator of this run
    uuid_n,          \* the number of uuids drawn in this run
    pc,              \* where the pipeline stands
    op,              \* "extract" (extract_from_text), "deep" (extract_with_deep_analysis)
    in_flight,       \* the number of outstanding requests to the endpoint
    requests,        \* the prompts sent so far, in order
    llm_result,      \* what the last call_ollama returned
    entities, relationships, concepts,    \* the lists under construction
    result,          \* the Result<ExtractionResult> returned
    prev_result,     \* the ExtractionResult of the previous run of the extractor
    graph,           \* the InteractiveGraph
    files,           \* the directory 0_networks: the content of each file, by name
    exports,         \* the ExportResults returned so far
    args,            \* the command line of msg_net, after the program name
    exit_code,       \* the exit status of the process, None while it runs
    stdout           \* the reports printed so far

vars == <<config, processed_text, rng, uuid_n, pc, op, in_flight, requests, llm_result,
          entities, relationships, concepts, result, prev_result, graph, files,
          exports, args, exit_code, stdout>>

None == [tag |-> "None", value |-> <<>>]

lists == <<entities, relationships, concepts>>
inputs == <<config, processed_text, rng, prev_result>>
net == <<in_flight, requests, llm_result>>
disk == <<files, exports>>
cli == <<args, exit_code, stdout>>

use_llm == config.extraction.use_llm

InitSeeded(cfg, text, seed) ==
    /\ config = cfg
    /\ processed_text = text
    /\ rng = seed
    /\ uuid_n = 0
    /\ pc = "idle"
    /\ op = "none"
    /\ in_flight = 0
    /\ requests = <<>>
    /\ llm_result = None
    /\ entities = <<>>
    /\ relationships = <<>>
    /\ concepts = <<>>
    /\ result = None
    /\ prev_result = None
    /\ graph = None
    /\ files = EmptyMap
    /\ exports = <<>>
    /\ args = <<>>
    /\ exit_code = None
    /\ stdout = <<>>

\* GraphConfig::default(), with or without --use-llm
Init ==
    \E llm \in BOOLEAN, text \in ProcessedTexts :
        InitSeeded(GraphConfig(llm, "hierarchical", 200), text, 0)

(***************************************************************************)
(* extract_from_text and extract_with_deep_analysis.                       *)
(***************************************************************************)
StartExtract ==
    /\ pc = "idle"
    /\ op' = "extract"
    /\ pc' = "entities"
    /\ UNCHANGED <<inputs, disk, cli, uuid_n, net, lists, result, graph>>

\* extract_with_deep_analysis without its check of use_llm
StartDeepUnchecked ==
    /\ pc = "idle"
    /\ op' = "deep"
    /\ pc' = "entities"
    /\ UNCHANGED <<inputs, disk, cli, uuid_n, net, lists, result, graph>>

StartDeep ==
    /\ pc = "idle"
    /\ op' = "deep"
    /\ IF ~use_llm
       THEN /\ result' = ErrResult("EntityExtraction")
            /\ pc' = "failed"
       ELSE /\ pc' = "entities"
            /\ UNCHANGED result
    /\ UNCHANGED <<inputs, disk, cli, uuid_n, net, lists, graph>>

\* self.config.llm_endpoint is posted one prompt; the caller awaits the answer
Request(kind) ==
    /\ in_flight' = in_flight + 1
    /\ requests' = Append(requests, kind)
    /\ llm_result' = None

\* call_ollama returns: an error, or the response text of the endpoint
CallOllamaReturns ==
    /\ pc \in {"entities_await", "relationships_await", "concepts_await"}
    /\ in_flight' = in_flight - 1
    /\ \E outcome \in {ErrResult(e) : e \in CallErrors}
                      \cup {OkResult(reply) :
                              reply \in CASE pc = "entities_await" -> EntityReplies
                                          [] pc = "relationships_await" -> RelationshipReplies
                                          [] OTHER -> ConceptReplies} :
            llm_result' = outcome
    /\ pc' = CASE pc = "entities_await" -> "entities_resume"
               [] pc = "relationships_await" -> "relationships_resume"
               [] OTHER -> "concepts_resume"
    /\ UNCHANGED <<inputs, disk, cli, uuid_n, op, requests, lists, result, graph>>

\* match llm_result { Ok(list) => list, Err(e) => { warn!(..); fallback } }
OrFallback(parsed, fallback) ==
    CASE parsed.tag = "Ok"  -> [tag |-> "Ok", items |-> parsed.value, n |-> parsed.n]
      [] parsed.tag = "Err" -> [tag |-> "Ok", items |-> fallback.items, n |-> fallback.n]
      [] OTHER              -> [tag |-> "Panic", items |-> <<>>, n |-> 0]

\* extract_from_text, use_llm false
PatternEntities ==
    /\ pc = "entities"
    /\ ~use_llm
    /\ LET Return(found) == entities' = found.items /\ uuid_n' = found.n
       IN Return(extract_entities_with_patterns(processed_text, rng, uuid_n))
    /\ pc' = "relationships"
    /\ UNCHANGED <<inputs, disk, cli, op, net, relationships, concepts, result, graph>>

\* extract_entities_with_llm, up to the await
RequestEntities ==
    /\ pc = "entities"
    /\ use_llm
    /\ Request("entities")
    /\ pc' = "entities_await"
    /\ UNCHANGED <<inputs, disk, cli, uuid_n, op, lists, result, graph>>

\* extract_entities_with_llm sending its request again when the call failed
ResumeEntitiesRetrying ==
    /\ pc = "entities_resume"
    /\ IF llm_result.tag = "Err"
       THEN /\ Request("entities")
            /\ pc' = "entities_await"
            /\ UNCHANGED <<entities, uuid_n>>
       ELSE /\ entities' = <<>>
            /\ pc' = "relationships"
            /\ UNCHANGED <<uuid_n, net>>
    /\ UNCHANGED <<inputs, disk, cli, op, relationships, concepts, result, graph>>

\* extract_entities_with_llm, from the await on
ResumeEntities ==
    /\ pc = "entities_resume"
    /\ LET Return(found) ==
               IF found.tag = "Panic"
               THEN pc' = "panicked" /\ UNCHANGED <<entities, uuid_n>>
               ELSE entities' = found.items /\ uuid_n' = found.n /\ pc' = "relationships"
       IN Return(OrFallback(
               IF llm_result.tag = "Ok"
               THEN parse_entities_from_llm_response(llm_result.value, rng, uuid_n)
               ELSE llm_result,
               extract_entities_with_patterns(processed_text, rng, uuid_n)))
    /\ UNCHANGED <<inputs, disk, cli, op, net, relationships, concepts, result, graph>>

\* extract_relationships_with_patterns: called by extract_from_text when use_llm
\* is false, and by extract_relationships_with_llm when there is no entity
PatternRelationships ==
    /\ pc = "relationships"
    /\ ~use_llm \/ entities = <<>>
    /\ LET Return(found) == relationships' = found.items /\ uuid_n' = found.n
       IN Return(extract_relationships_with_patterns(processed_text, entities, rng, uuid_n))
    /\ pc' = "concepts"
    /\ UNCHANGED <<inputs, disk, cli, op, net, entities, concepts, result, graph>>

\* extract_relationships_with_llm without its early return
RequestRelationshipsUnguarded ==
    /\ pc = "relationships"
    /\ use_llm
    /\ Request("relationships")
    /\ pc' = "relationships_await"
    /\ UNCHANGED <<inputs, disk, cli, uuid_n, op, lists, result, graph>>

RequestRelationships ==
    /\ pc = "relationships"
    /\ use_llm /\ entities # <<>>
    /\ Request("relationships")
    /\ pc' = "relationships_await"
    /\ UNCHANGED <<inputs, disk, cli, uuid_n, op, lists, result, graph>>

ResumeRelationships ==
    /\ pc = "relationships_resume"
    /\ LET Return(found) ==
               IF found.tag = "Panic"
               THEN pc' = "panicked" /\ UNCHANGED <<relationships, uuid_n>>
               ELSE relationships' = found.items /\ uuid_n' = found.n /\ pc' = "concepts"
       IN Return(OrFallback(
               IF llm_result.tag = "Ok"
               THEN parse_relationships_from_llm_response(llm_result.value, entities,
                                                          rng, uuid_n)
               ELSE llm_result,
               extract_relationships_with_patterns(processed_text, entities, rng, uuid_n)))
    /\ UNCHANGED <<inputs, disk, cli, op, net, entities, concepts, result, graph>>

\* where extract_from_text and extract_with_deep_analysis go on after the concepts
AfterConcepts == IF op = "deep" THEN "phase2" ELSE "finish"

PatternConcepts ==
    /\ pc = "concepts"
    /\ ~use_llm
    /\ LET Return(found) == concepts' = found.items /\ uuid_n' = found.n
       IN Return(extract_concepts_with_patterns(processed_text, rng, uuid_n))
    /\ pc' = AfterConcepts
    /\ UNCHANGED <<inputs, disk, cli, op, net, entities, relationships, result, graph>>

RequestConcepts ==
    /\ pc = "concepts"
    /\ use_llm
    /\ Request("concepts")
    /\ pc' = "concepts_await"
    /\ UNCHANGED <<inputs, disk, cli, uuid_n, op, lists, result, graph>>

ResumeConcepts ==
    /\ pc = "concepts_resume"
    /\ LET Return(found) ==
               IF found.tag = "Panic"
               THEN pc' = "panicked" /\ UNCHANGED <<concepts, uuid_n>>
               ELSE concepts' = found.items /\ uuid_n' = found.n /\ pc' = AfterConcepts
       IN Return(OrFallback(
               IF llm_result.tag = "Ok"
               THEN parse_concepts_from_llm_response(llm_result.value, rng, uuid_n)
               ELSE llm_result,
               extract_concepts_with_patterns(processed_text, rng, uuid_n)))
    /\ UNCHANGED <<inputs, disk, cli, op, net, entities, relationships, result, graph>>

\* metadata that names the method after the origin of the entities: the label
\* of the pattern extractor when every entity has a text position
ExtractionMetadataByOrigin(processing_time_ms, confidence_threshold, extraction_method) ==
    [total_entities |-> Len(entities), total_relationships |-> Len(relationships),
     total_concepts |-> Len(concepts), processing_time_ms |-> processing_time_ms,
     confidence_threshold |-> confidence_threshold,
     extraction_method |-> IF \A k \in 1..Len(entities) : entities[k].position.some
                           THEN "Pattern-based" ELSE extraction_method]

ExtractionMetadata(processing_time_ms, confidence_threshold, extraction_method) ==
    [total_entities |-> Len(entities), total_relationships |-> Len(relationships),
     total_concepts |-> Len(concepts), processing_time_ms |-> processing_time_ms,
     confidence_threshold |-> confidence_threshold,
     extraction_method |-> extraction_method]

ExtractionResult(metadata) ==
    [entities |-> entities, relationships |-> relationships, concepts |-> concepts,
     metadata |-> metadata]

\* extract_from_text: the metadata and the return
Finish ==
    /\ pc = "finish"
    /\ \E elapsed \in 0..MaxElapsedMs :
        result' = OkResult(ExtractionResult(ExtractionMetadata(elapsed, 500,
                        IF use_llm THEN "LLM-" \o config.extraction.llm_model
                        ELSE "Pattern-based")))
    /\ llm_result' = None
    /\ pc' = "extracted"
    /\ UNCHANGED <<inputs, disk, cli, uuid_n, op, in_flight, requests, lists, graph>>

\* Phase 2: deep relationship analysis
DeepPhase2 ==
    /\ pc = "phase2"
    /\ LET Extend(deep_relationships) ==
               /\ relationships' = relationships \o deep_relationships.items
               /\ uuid_n' = deep_relationships.n
       IN Extend(extract_deep_relationships_with_llm(processed_text, entities, rng, uuid_n))
    /\ llm_result' = None
    /\ pc' = "phase3"
    /\ UNCHANGED <<inputs, disk, cli, op, in_flight, requests, entities, concepts, result, graph>>

\* Phase 3: contextual entity enhancement
DeepPhase3 ==
    /\ pc = "phase3"
    /\ LET Replace(enhanced) == entities' = enhanced.items /\ uuid_n' = enhanced.n
       IN Replace(enhance_entities_with_context(processed_text, entities, rng, uuid_n))
    /\ pc' = "phase4"
    /\ UNCHANGED <<inputs, disk, cli, op, net, relationships, concepts, result, graph>>

\* Phase 4 putting its relationships in front of the earlier ones
DeepPhase4Prepending ==
    /\ pc = "phase4"
    /\ LET Extend(concept_relationships) ==
               /\ relationships' = concept_relationships.items \o relationships
               /\ uuid_n' = concept_relationships.n
       IN Extend(extract_concept_relationships(concepts, entities, rng, uuid_n))
    /\ pc' = "deep_finish"
    /\ UNCHANGED <<inputs, disk, cli, op, net, entities, concepts, result, graph>>

\* Phase 4: advanced concept mapping
DeepPhase4 ==
    /\ pc = "phase4"
    /\ LET Extend(concept_relationships) ==
               /\ relationships' = relationships \o concept_relationships.items
               /\ uuid_n' = concept_relationships.n
       IN Extend(extract_concept_relationships(concepts, entities, rng, uuid_n))
    /\ pc' = "deep_finish"
    /\ UNCHANGED <<inputs, disk, cli, op, net, entities, concepts, result, graph>>

\* extract_with_deep_analysis: the metadata and the return
DeepFinish ==
    /\ pc = "deep_finish"
    /\ \E elapsed \in 0..MaxElapsedMs :
        result' = OkResult(ExtractionResult(ExtractionMetadata(elapsed, 600,
                        "Deep-Analysis-LLM-" \o config.extraction.llm_model)))
    /\ pc' = "extracted"
    /\ UNCHANGED <<inputs, disk, cli, uuid_n, op, net, lists, graph>>

(***************************************************************************)
(* generate_graph: build_graph, then apply_layout.                         *)
(***************************************************************************)
BuildGraph ==
    /\ pc = "extracted"
    /\ graph' = OkResult(build_graph(config, result.value, processed_text.original_text))
    /\ pc' = "built"
    /\ UNCHANGED <<inputs, disk, cli, uuid_n, op, net, lists, result>>

ApplyLayout ==
    /\ pc = "built"
    /\ graph' = OkResult(apply_layout(graph.value))
    /\ pc' = "done"
    /\ UNCHANGED <<inputs, disk, cli, uuid_n, op, net, lists, result>>

Next ==
    \/ StartExtract
    \/ StartDeep
    \/ CallOllamaReturns
    \/ PatternEntities
    \/ RequestEntities
    \/ ResumeEntities
    \/ PatternRelationships
    \/ RequestRelationships
    \/ ResumeRelationships
    \/ PatternConcepts
    \/ RequestConcepts
    \/ ResumeConcepts
    \/ Finish
    \/ DeepPhase2
    \/ DeepPhase3
    \/ DeepPhase4
    \/ DeepFinish
    \/ BuildGraph
    \/ ApplyLayout

Spec == Init /\ [][Next]_vars

(***************************************************************************)
(* The language-model steps on every short reply: the extractor stands     *)
(* after one call_ollama returned a response text, the steps before it     *)
(* having fallen back to the patterns.                                     *)
(***************************************************************************)
ParseText == ProcessedText(<<"Alice has Bob", "Bob, a user, uses the system">>)

InitParse ==
    /\ config = GraphConfig(TRUE, "hierarchical", 200)
    /\ processed_text = ParseText
    /\ \E found_entities \in {extract_entities_with_patterns(ParseText, 0, 0)} :
        \E found_relationships \in
              {extract_relationships_with_patterns(ParseText, found_entities.items,
                                                   0, found_entities.n)} :
          \E kind \in {"entities", "relationships", "concepts"} :
            \E reply \in SeqsUpTo(ReplyAlphabet(kind), MaxReplyLen) :
              /\ rng = 0
              /\ pc = kind \o "_resume"
              /\ op = "extract"
              /\ in_flight = 0
              /\ requests = CASE kind = "entities" -> <<"entities">>
                              [] kind = "relationships" -> <<"entities", "relationships">>
                              [] OTHER -> <<"entities", "relationships", "concepts">>
              /\ llm_result = OkResult(reply)
              /\ entities = IF kind = "entities" THEN <<>> ELSE found_entities.items
              /\ relationships = IF kind = "concepts" THEN found_relationships.items
                                 ELSE <<>>
              /\ uuid_n = CASE kind = "entities" -> 0
                            [] kind = "relationships" -> found_entities.n
                            [] OTHER -> found_relationships.n
              /\ concepts = <<>>
              /\ result = None
              /\ prev_result = None
              /\ graph = None
              /\ files = EmptyMap
              /\ exports = <<>>
              /\ args = <<>>
              /\ exit_code = None
              /\ stdout = <<>>

NextParse ==
    \/ ResumeEntities
    \/ ResumeRelationships
    \/ ResumeConcepts

SpecParse == InitParse /\ [][NextParse]_vars

(***************************************************************************)
(* The pattern-based extractor run twice on one text: each run of the      *)
(* program seeds its random generator anew.                                *)
(***************************************************************************)
InitTwice ==
    \E text \in ProcessedTexts, seed \in 0..MaxRng :
        InitSeeded(GraphConfig(FALSE, "hierarchical", 200), text, seed)

\* the second run, on the same processed text with the same configuration
Rerun ==
    /\ pc = "extracted"
    /\ prev_result = None
    /\ prev_result' = result
    /\ \E seed \in 0..MaxRng : rng' = seed
    /\ uuid_n' = 0
    /\ pc' = "idle"
    /\ op' = "none"
    /\ entities' = <<>>
    /\ relationships' = <<>>
    /\ concepts' = <<>>
    /\ result' = None
    /\ UNCHANGED <<config, processed_text, net, graph, disk, cli>>

NextTwice ==
    \/ StartExtract
    \/ PatternEntities
    \/ PatternRelationships
    \/ PatternConcepts
    \/ Finish
    \/ Rerun

SpecTwice == InitTwice /\ [][NextTwice]_vars

(***************************************************************************)
(* apply_layout on the graphs of extraction results of every band size,    *)
(* under every layout algorithm name and spacing.                          *)
(***************************************************************************)
SampleNames == <<"Alice", "Bob", "Carol", "Dave">>
SampleAttributes == <<"description", "contextual_role", "domain">>
Algorithms == {"hierarchical", "force", "circular", "grid"}
Spacings == {0, 150, 200}

\* an extraction result of ne entities with a derived attributes each, and
\* nc concepts
SampleResult(ne, a, nc) ==
    [entities |->
        [k \in 1..ne |->
            Entity(Uuid(0, 10 * k), SampleNames[k], EntityType("Person"),
                   <<Attribute(Uuid(0, 10 * k + 1), "name", SampleNames[k], "Name", 1000)>>
                   \o [j \in 1..a |->
                         Attribute(Uuid(0, 10 * k + 1 + j), SampleAttributes[j], "engineer",
                                   "Description", 700)],
                   700, SomePos(0, 3, k - 1))],
     relationships |-> <<>>,
     concepts |->
        [k \in 1..nc |->
            Concept(Uuid(0, 100 + k), "system", "Concept 'system' mentioned", 600,
                    SomePos(0, 6, k - 1))],
     metadata |-> [total_entities |-> ne, total_relationships |-> 0,
                   total_concepts |-> nc, processing_time_ms |-> 0,
                   confidence_threshold |-> 500, extraction_method |-> "Pattern-based"]]

InitLayout ==
    \E ne \in 0..MaxBand, a \in 0..MaxAttrs, nc \in 0..MaxBand,
       algorithm \in Algorithms, spacing \in Spacings :
        /\ config = GraphConfig(FALSE, algorithm, spacing)
        /\ processed_text = ProcessedText(<<>>)
        /\ rng = 0
        /\ uuid_n = 0
        /\ pc = "built"
        /\ op = "extract"
        /\ in_flight = 0
        /\ requests = <<>>
        /\ llm_result = None
        /\ entities = SampleResult(ne, a, nc).entities
        /\ relationships = <<>>
        /\ concepts = SampleResult(ne, a, nc).concepts
        /\ result = OkResult(SampleResult(ne, a, nc))
        /\ prev_result = None
        /\ graph = OkResult(build_graph(GraphConfig(FALSE, algorithm, spacing),
                                        SampleResult(ne, a, nc), ""))
        /\ files = EmptyMap
        /\ exports = <<>>
        /\ args = <<>>
        /\ exit_code = None
        /\ stdout = <<>>

NextLayout == ApplyLayout

SpecLayout == InitLayout /\ [][NextLayout]_vars

(***************************************************************************)
(* export_graph, run after run, into a directory 0_networks that may hold  *)
(* files of earlier runs.                                                  *)
(***************************************************************************)
EarlierPaths == {"0_networks/graph.html", "0_networks/graph_01.html"}

EarlierContent ==
    [exported_format |-> "earlier", original_graph_nodes |-> 0, original_graph_edges |-> 0]

RequestedPaths == {"graph.html", "out/graph.html", "graph_01.html", "graph.json", "notes"}

FilePaths == {[some |-> FALSE, value |-> ""]}
             \cup {[some |-> TRUE, value |-> p] : p \in RequestedPaths}

InitExport ==
    \E earlier \in SUBSET EarlierPaths :
        /\ config = GraphConfig(FALSE, "hierarchical", 200)
        /\ processed_text = ProcessedText(<<>>)
        /\ rng = 0
        /\ uuid_n = 0
        /\ pc = "done"
        /\ op = "extract"
        /\ in_flight = 0
        /\ requests = <<>>
        /\ llm_result = None
        /\ entities = SampleResult(1, 0, 1).entities
        /\ relationships = <<>>
        /\ concepts = SampleResult(1, 0, 1).concepts
        /\ result = OkResult(SampleResult(1, 0, 1))
        /\ prev_result = None
        /\ graph = OkResult(apply_layout(build_graph(GraphConfig(FALSE, "hierarchical", 200),
                                                     SampleResult(1, 0, 1), "")))
        /\ files = [p \in earlier |-> EarlierContent]
        /\ exports = <<>>
        /\ args = <<>>
        /\ exit_code = None
        /\ stdout = <<>>

\* generate_graph: export_graph, once per run
ExportGraph ==
    /\ pc = "done"
    /\ Len(exports) < MaxExports
    /\ \E format \in ExportFormats, file_path \in FilePaths :
          LET Return(exported) ==
                  /\ files' = exported.files
                  /\ exports' = Append(exports,
                                       [requested |-> IF file_path.some THEN file_path.value
                                                      ELSE default_path(format),
                                        result |-> exported.result])
          IN Return(export_graph(files, graph.value, format, file_path))
    /\ UNCHANGED <<inputs, cli, uuid_n, pc, op, net, lists, result, graph>>

NextExport == ExportGraph

SpecExport == InitExport /\ [][NextExport]_vars

(***************************************************************************)
(* extract_from_text with the default patterns and use_llm false, on texts *)
(* whose sentences hold several entities and relationship patterns.        *)
(***************************************************************************)
PatternSentencePool ==
    {"Alice is related to Bob", "TechCorp is a company",
     "a user has Bob and Carol is here", "Carol owns Acme Corp"}

InitPatterns ==
    \E ss \in UNION {[1..k -> PatternSentencePool] : k \in 0..MaxSentences} :
        InitSeeded(GraphConfig(FALSE, "hierarchical", 200), ProcessedText(ss), 0)

NextPatterns ==
    \/ StartExtract
    \/ PatternEntities
    \/ PatternRelationships
    \/ PatternConcepts
    \/ Finish

SpecPatterns == InitPatterns /\ [][NextPatterns]_vars

(***************************************************************************)
(* parse_entities_from_llm_response on replies of two entities, under the  *)
(* type strings a language model may answer with.                          *)
(***************************************************************************)
TypeStrings ==
    {"Person", "PERSON", "place", "Organization", "ORGANIZATION", "Event", "event",
     "Product", "Concept", "concept", "System", "SYSTEM", "process", "Robot"}

InitTypes ==
    \E t1 \in TypeStrings, t2 \in TypeStrings :
        /\ config = GraphConfig(TRUE, "hierarchical", 200)
        /\ processed_text = ParseText
        /\ rng = 0
        /\ uuid_n = 0
        /\ pc = "entities_resume"
        /\ op = "extract"
        /\ in_flight = 0
        /\ requests = <<"entities">>
        /\ llm_result = OkResult(<<LB, Obj([name |-> "Bob", type |-> t1,
                                             confidence |-> 800]),
                                    COMMA, Obj([name |-> "Alice", type |-> t2,
                                                confidence |-> 900]), RB>>)
        /\ entities = <<>>
        /\ relationships = <<>>
        /\ concepts = <<>>
        /\ result = None
        /\ prev_result = None
        /\ graph = None
        /\ files = EmptyMap
        /\ exports = <<>>
        /\ args = <<>>
        /\ exit_code = None
        /\ stdout = <<>>

NextTypes == ResumeEntities

SpecTypes == InitTypes /\ [][NextTypes]_vars

(***************************************************************************)
(* TextProcessor (text_processor.rs).                                      *)
(***************************************************************************)
default_english_stopwords ==
    {"a", "an", "and", "are", "as", "at", "be", "by", "for", "from", "has", "he", "in",
     "is", "it", "its", "of", "on", "that", "the", "to", "was", "were", "will", "with",
     "this", "but", "they", "have", "had", "what", "said", "each", "which", "she", "do",
     "how", "their", "if", "up", "out", "many", "then", "them", "these", "so", "some",
     "her", "would", "make", "like", "into", "him", "time", "two", "more", "go", "no",
     "way", "could", "my", "than", "first", "been", "call", "who", "oil", "sit", "now",
     "find", "down", "day", "did", "get", "may", "new", "write", "our", "used", "man",
     "water", "words", "long", "little", "very", "after", "without", "just", "where",
     "much", "through", "back", "years", "work", "life", "only", "over", "know",
     "should", "came", "any", "here", "take", "why", "help", "put", "different", "away",
     "again", "off", "went", "old", "number", "great", "tell", "men", "say", "small",
     "every", "found", "still", "between", "name", "good", "need", "give", "us", "below",
     "last", "never", "before", "too", "line", "right", "also", "around", "another",
     "three", "high", "part", "end", "asked", "turned", "learn", "point", "city", "play",
     "toward", "five", "himself", "usually", "money", "seen", "didn", "car", "morning",
     "i", "you", "your", "me", "we", "am", "can", "can't", "cannot", "couldn't",
     "didn't", "does", "doesn't", "don't", "hadn't", "hasn't", "haven't", "he'd",
     "he'll", "he's", "here's", "how's", "i'd", "i'll", "i'm", "i've", "isn't", "it'd",
     "it'll", "it's", "let's", "mustn't", "shan't", "she'd", "she'll", "she's",
     "shouldn't", "that's", "there's", "they'd", "they'll", "they're", "they've", "we'd",
     "we're", "we've", "what's", "when's", "where's", "who's", "won't", "wouldn't",
     "you'd", "you'll", "you're", "you've", "about", "above", "across", "against",
     "along", "among", "because", "behind", "beneath", "beside", "beyond", "during",
     "except", "inside", "outside", "throughout", "under", "until", "within", "being",
     "having", "doing"}

\* the TextProcessor that TextProcessor::new() builds: the default list, removal on
TextProcessor_new ==
    [stopwords |-> default_english_stopwords, remove_stopwords |-> TRUE]

sentence_regex == <<Plus("sentenceEnd"), Star(<<One("space")>>)>>    \* [.!?]+\s*
word_regex == <<WB, Plus("word"), WB>>                               \* \b\w+\b

\* the bytes cleanup_regex keeps: [\w\s.,!?;:\-\(\)\[\]]
KeptByCleanup(c) ==
    IsWordChar(c) \/ c \in SpaceChars \cup {".", ",", "!", "?", ";", ":", "-", "(", ")", "[", "]"}

\* cleanup_regex.replace_all(text, " ") followed by \s+ -> " "
RECURSIVE normalize_from(_, _, _)
normalize_from(text, p, after_space) ==
    IF p >= Len(text) THEN ""
    ELSE IF KeptByCleanup(At(text, p)) /\ At(text, p) \notin SpaceChars
         THEN At(text, p) \o normalize_from(text, p + 1, FALSE)
         ELSE (IF after_space THEN "" ELSE " ") \o normalize_from(text, p + 1, TRUE)

clean_text(text) == normalize_from(trim(text), 0, FALSE)

\* Regex::split: the pieces of text between the matches, the last one included
RECURSIVE PiecesBetween(_, _, _, _)
PiecesBetween(text, ms, i, from) ==
    IF i > Len(ms) THEN <<Slice(text, from, Len(text))>>
    ELSE <<Slice(text, from, ms[i].start)>> \o PiecesBetween(text, ms, i + 1, ms[i].end)

\* the trimmed pieces that are not empty
RECURSIVE NonEmptyTrimmed(_, _)
NonEmptyTrimmed(pieces, i) ==
    IF i > Len(pieces) THEN <<>>
    ELSE (IF trim(pieces[i]) = "" THEN <<>> ELSE <<trim(pieces[i])>>)
         \o NonEmptyTrimmed(pieces, i + 1)

extract_sentences(text) ==
    NonEmptyTrimmed(PiecesBetween(text, find_iter(sentence_regex, text), 1, 0), 1)

extract_words(text) ==
    LET Lowered(ms) == [i \in 1..Len(ms) |-> to_lowercase(Slice(text, ms[i].start, ms[i].end))]
    IN Lowered(find_iter(word_regex, text))

remove_stopwords_from_words(self, words) ==
    LET Keep(word) == word \notin self.stopwords
    IN SelectSeq(words, Keep)

\* str::split_whitespace: the maximal runs of bytes that are no white space
RECURSIVE split_whitespace_from(_, _)
split_whitespace_from(s, p) ==
    IF p >= Len(s) THEN <<>>
    ELSE IF At(s, p) \in SpaceChars THEN split_whitespace_from(s, p + 1)
    ELSE LET Run(n) == <<Slice(s, p, p + n)>> \o split_whitespace_from(s, p + n)
         IN Run(RunLen(s, p, "notSpace"))

IsAlphabetic(c) == c \in UpperChars \cup LowerChars

\* trim_matches(|c| !c.is_alphabetic())
RECURSIVE trim_non_alphabetic(_)
trim_non_alphabetic(s) ==
    IF s = "" THEN ""
    ELSE IF ~IsAlphabetic(At(s, 0)) THEN trim_non_alphabetic(Slice(s, 1, Len(s)))
    ELSE IF ~IsAlphabetic(At(s, Len(s) - 1)) THEN trim_non_alphabetic(Slice(s, 0, Len(s) - 1))
    ELSE s

RECURSIVE join_words(_, _)
join_words(words, i) ==
    IF i > Len(words) THEN ""
    ELSE words[i] \o (IF i < Len(words) THEN " " ELSE "") \o join_words(words, i + 1)

reconstruct_text_without_stopwords(self, text) ==
    LET Keep(word) == trim_non_alphabetic(to_lowercase(word)) \notin self.stopwords
    IN join_words(SelectSeq(split_whitespace_from(text, 0), Keep), 1)

\* TextProcessor::process_text
process_text(self, text) ==
    LET Processed(cleaned_text) ==
            LET Counted(filtered_words) ==
                    [original_text |-> text,
                     sentences |-> extract_sentences(cleaned_text),
                     words |-> filtered_words,
                     cleaned_text |-> IF self.remove_stopwords
                                      THEN reconstruct_text_without_stopwords(self, cleaned_text)
                                      ELSE cleaned_text,
                     word_count |-> Len(filtered_words)]
            IN Counted(IF self.remove_stopwords
                       THEN remove_stopwords_from_words(self, extract_words(cleaned_text))
                       ELSE extract_words(cleaned_text))
    IN Processed(clean_text(text))

(***************************************************************************)
(* The command line of msg_net (main.rs): Cli::parse, then analyze_text    *)
(* or generate_graph.                                                      *)
(***************************************************************************)
\* The options that clap derives from Commands::Analyze and Commands::Generate:
\* the spellings of each option, and whether it takes a value.
CliOption(name, spellings, takes_value, required) ==
    [name |-> name, spellings |-> spellings, takes_value |-> takes_value,
     required |-> required]

AnalyzeOptions ==
    {CliOption("input", {"-i", "--input"}, TRUE, TRUE),
     CliOption("verbose", {"-v", "--verbose"}, FALSE, FALSE),
     CliOption("config", {"-c", "--config"}, TRUE, FALSE)}

GenerateOptions ==
    {CliOption("input", {"-i", "--input"}, TRUE, TRUE),
     CliOption("output", {"-o", "--output"}, TRUE, TRUE),
     CliOption("source_type", {"-s", "--source-type"}, TRUE, FALSE),
     CliOption("config", {"-c", "--config"}, TRUE, FALSE),
     CliOption("format", {"-f", "--format"}, TRUE, FALSE),
     CliOption("include_metadata", {"--include-metadata"}, FALSE, FALSE),
     CliOption("use_llm", {"--use-llm"}, FALSE, FALSE),
     CliOption("deep_analysis", {"--deep-analysis"}, FALSE, FALSE),
     CliOption("llm_model", {"--llm-model"}, TRUE, FALSE),
     CliOption("llm_endpoint", {"--llm-endpoint"}, TRUE, FALSE)}

OptionsOf(command) ==
    CASE command = "analyze" -> AnalyzeOptions
      [] command = "generate" -> GenerateOptions
      [] OTHER -> {}

\* Cli::parse on the arguments from index i on: the values of the options
\* given, or a usage error (an argument no option of the command spells, an
\* option without its value, an option given twice).
RECURSIVE ParseOptions(_, _, _, _)
ParseOptions(options, argv, i, given) ==
    IF i > Len(argv) THEN [ok |-> TRUE, given |-> given]
    ELSE LET spelled == {o \in options : argv[i] \in o.spellings}
         IN IF spelled = {} THEN [ok |-> FALSE, given |-> given]
            ELSE LET o == CHOOSE x \in spelled : TRUE
                 IN IF \E g \in given : g.name = o.name
                    THEN [ok |-> FALSE, given |-> given]
                    ELSE IF ~o.takes_value
                    THEN ParseOptions(options, argv, i + 1,
                                      given \cup {[name |-> o.name, value |-> "true"]})
                    ELSE IF i + 1 > Len(argv) THEN [ok |-> FALSE, given |-> given]
                    ELSE ParseOptions(options, argv, i + 2,
                                      given \cup {[name |-> o.name, value |-> argv[i + 1]]})

Cli_parse(argv) ==
    IF argv = <<>> \/ OptionsOf(argv[1]) = {} THEN [ok |-> FALSE, given |-> {}]
    ELSE LET Checked(parsed) ==
                 IF parsed.ok /\ \A o \in OptionsOf(argv[1]) :
                                     o.required => \E g \in parsed.given : g.name = o.name
                 THEN parsed ELSE [ok |-> FALSE, given |-> parsed.given]
         IN Checked(ParseOptions(OptionsOf(argv[1]), argv, 2, {}))

\* the value given for an option, "" if it was not given
Given(parsed, name) ==
    IF \E g \in parsed.given : g.name = name
    THEN (CHOOSE g \in parsed.given : g.name = name).value ELSE ""

\* The files of the working directory: texts and configuration files
TextFiles ==
    [path \in {"story.txt", "plain.txt", "words.txt", "blank.txt"} |->
        CASE path = "story.txt" -> "The manager Bob runs a server. Alice has Bob!"
          [] path = "plain.txt" -> " Bob manages Alice.  Carol's plan works? "
          [] path = "words.txt" -> "It is what it was"
          [] OTHER -> "  "]

\* text_processing.remove_stopwords of each configuration file
ConfigFiles == [path \in {"keep.json", "remove.json"} |-> path = "remove.json"]

CommandLines ==
    {<<command>> \o input \o output \o verbose \o stop \o cfg :
        command \in {"analyze", "generate"},
        input \in {<<"-i", "story.txt">>, <<"--input", "plain.txt">>, <<"-i", "words.txt">>,
                   <<"-i", "blank.txt">>, <<"-i", "missing.txt">>, <<>>},
        output \in {<<>>, <<"-o", "graph.html">>},
        verbose \in {<<>>, <<"--verbose">>},
        stop \in {<<>>, <<"--no-remove-stopwords">>, <<"--stopwords-file", "stop.txt">>},
        cfg \in {<<>>, <<"-c", "keep.json">>, <<"--config", "remove.json">>}}

\* the process exits with the status code
Exit(code) == [tag |-> "Some", value |-> code]

Report(line, value) == [line |-> line, value |-> value]

InitCli ==
    \E argv \in CommandLines :
        /\ args = argv
        /\ exit_code = None
        /\ stdout = <<>>
        /\ pc = "main"
        /\ config = GraphConfig(FALSE, "hierarchical", 200)
        /\ processed_text = None
        /\ rng = 0
        /\ uuid_n = 0
        /\ op = "none"
        /\ in_flight = 0
        /\ requests = <<>>
        /\ llm_result = None
        /\ entities = <<>>
        /\ relationships = <<>>
        /\ concepts = <<>>
        /\ result = None
        /\ prev_result = None
        /\ graph = None
        /\ files = EmptyMap
        /\ exports = <<>>

\* main: Cli::parse() ends the process with status 2 on a usage error,
\* otherwise the command is dispatched.
CliParse ==
    /\ pc = "main"
    /\ LET Dispatch(parsed) ==
               IF parsed.ok THEN pc' = args[1] /\ UNCHANGED exit_code
               ELSE pc' = "exited" /\ exit_code' = Exit(2)
       IN Dispatch(Cli_parse(args))
    /\ UNCHANGED <<inputs, disk, args, stdout, uuid_n, op, net, lists, result, graph>>

\* What loading the input and the configuration file returns: the text, or
\* the Err that main returns (fs::read_to_string fails, the text is blank).
LoadInput(parsed) ==
    IF Given(parsed, "input") \notin DOMAIN TextFiles THEN ErrResult("Io")
    ELSE IF trim(TextFiles[Given(parsed, "input")]) = "" THEN ErrResult("TextProcessing")
    ELSE IF Given(parsed, "config") # "" /\ Given(parsed, "config") \notin DOMAIN ConfigFiles
    THEN ErrResult("Io")
    ELSE OkResult(TextFiles[Given(parsed, "input")])

\* The lines of the entity extraction preview of analyze --verbose
\* (the configuration files leave extraction.use_llm false).
Preview(processed) ==
    LET WithEntities(es) ==
            LET WithRelationships(rs) ==
                    <<Report("Entities found", Len(es.items)),
                      Report("Relationships found", Len(rs.items)),
                      Report("Concepts found",
                             Len(extract_concepts_with_patterns(processed, 0, rs.n).items))>>
            IN WithRelationships(extract_relationships_with_patterns(processed, es.items, 0, es.n))
    IN WithEntities(extract_entities_with_patterns(processed, 0, 0))

\* analyze_text(input, verbose, config): the text is processed by
\* TextProcessor::new(), whatever the configuration file says.
AnalyzeText ==
    /\ pc = "analyze"
    /\ pc' = "exited"
    /\ LET Analyzed(parsed, loaded) ==
               IF loaded.tag = "Err"
               THEN exit_code' = Exit(1) /\ UNCHANGED stdout
               ELSE LET Printed(processed) ==
                            /\ stdout' = stdout
                                   \o <<Report("Word count", processed.word_count),
                                        Report("Sentence count", Len(processed.sentences))>>
                                   \o (IF Given(parsed, "verbose") = "true"
                                       THEN Preview(processed) ELSE <<>>)
                            /\ exit_code' = Exit(0)
                    IN Printed(process_text(TextProcessor_new, loaded.value))
       IN Analyzed(Cli_parse(args), LoadInput(Cli_parse(args)))
    /\ UNCHANGED <<inputs, disk, args, uuid_n, op, net, lists, result, graph>>

\* generate_graph(...) up to the extraction: the text is loaded and processed
\* by TextProcessor::new(); extract_from_text follows (StartExtract).
GenerateLoad ==
    /\ pc = "generate"
    /\ LET Loaded(loaded) ==
               IF loaded.tag = "Err"
               THEN /\ pc' = "exited"
                    /\ exit_code' = Exit(1)
                    /\ UNCHANGED <<stdout, processed_text>>
               ELSE LET Processed(processed) ==
                            /\ processed_text' = processed
                            /\ stdout' = stdout
                                   \o <<Report("Text processed words", processed.word_count),
                                        Report("Text processed sentences",
                                               Len(processed.sentences))>>
                            /\ pc' = "idle"
                            /\ UNCHANGED exit_code
                    IN Processed(process_text(TextProcessor_new, loaded.value))
       IN Loaded(LoadInput(Cli_parse(args)))
    /\ UNCHANGED <<config, rng, prev_result, disk, args, uuid_n, op, net, lists, result,
                   graph>>

NextCli ==
    \/ CliParse
    \/ AnalyzeText
    \/ GenerateLoad

SpecCli == InitCli /\ [][NextCli]_vars

(***************************************************************************)
(* Properties of the graph and of the extraction result.                   *)
(***************************************************************************)
NodeIds(g) == {g.nodes[i].id : i \in 1..Len(g.nodes)}

EdgeTypesOf(g) == {g.edges[i].edge_type : i \in 1..Len(g.edges)}

RECURSIVE SumValues(_)
SumValues(map) ==
    IF DOMAIN map = {} THEN 0
    ELSE LET Rest(k) == map[k] + SumValues([j \in DOMAIN map \ {k} |-> map[j]])
         IN Rest(CHOOSE k \in DOMAIN map : TRUE)

\* C1: in every graph build_graph returns for an extraction result of
\* extract_from_text or extract_with_deep_analysis (patterns, language
\* model, fallback, deep analysis), the from and the to of every edge are
\* ids of nodes of the graph.
EdgesReferenceNodes ==
    graph.tag = "Ok" =>
        \A i \in 1..Len(graph.value.edges) :
            /\ graph.value.edges[i].from \in NodeIds(graph.value)
            /\ graph.value.edges[i].to \in NodeIds(graph.value)

\* a graph of a deep analysis with edges of the three kinds, one of them a
\* relationship edge that starts at a concept
DeepGraphWithAllEdgeKinds ==
    /\ graph.tag = "Ok"
    /\ op = "deep"
    /\ EdgeTypesOf(graph.value) = {"EntityRelationship", "EntityAttribute", "ConceptEntity"}
    /\ \E i \in 1..Len(graph.value.edges), k \in 1..Len(concepts) :
         /\ graph.value.edges[i].edge_type = "EntityRelationship"
         /\ graph.value.edges[i].from = concepts[k].id

\* C2: in every graph build_graph returns, metadata.total_nodes is the
\* length of the node list, metadata.total_edges the length of the edge
\* list, the node_types histogram sums to total_nodes and the edge_types
\* histogram sums to total_edges.
MetadataCounts ==
    graph.tag = "Ok" =>
        /\ graph.value.metadata.total_nodes = Len(graph.value.nodes)
        /\ graph.value.metadata.total_edges = Len(graph.value.edges)
        /\ SumValues(graph.value.metadata.node_types) = graph.value.metadata.total_nodes
        /\ SumValues(graph.value.metadata.edge_types) = graph.value.metadata.total_edges

\* a graph with nodes of three types and edges of three types
GraphWithFullHistograms ==
    /\ graph.tag = "Ok"
    /\ DOMAIN graph.value.metadata.node_types = {"entity", "attribute", "concept"}
    /\ DOMAIN graph.value.metadata.edge_types =
          {"relationship", "entity_attribute", "concept_entity"}
    /\ graph.value.metadata.total_edges > 3

InUnitInterval(confidence) == 0 <= confidence /\ confidence <= 1000

\* C3: at the end of the pipeline every confidence (of each entity,
\* attribute, relationship and concept, and in the metadata of each node and
\* edge) lies in [0, 1], whatever confidences the language model reported.
ConfidencesInUnitInterval ==
    graph.tag = "Ok" =>
        /\ \A i \in 1..Len(result.value.entities) :
             /\ InUnitInterval(result.value.entities[i].confidence)
             /\ \A j \in 1..Len(result.value.entities[i].attributes) :
                  InUnitInterval(result.value.entities[i].attributes[j].confidence)
        /\ \A i \in 1..Len(result.value.relationships) :
             InUnitInterval(result.value.relationships[i].confidence)
        /\ \A i \in 1..Len(result.value.concepts) :
             InUnitInterval(result.value.concepts[i].confidence)
        /\ \A i \in 1..Len(graph.value.nodes) :
             InUnitInterval(graph.value.nodes[i].metadata.confidence)
        /\ \A i \in 1..Len(graph.value.edges) :
             InUnitInterval(graph.value.edges[i].metadata.confidence)

\* C4: no two entities of a returned ExtractionResult have the same name
\* (exact string comparison), in pattern mode, language-model mode and deep
\* analysis.
EntityNamesUnique ==
    result.tag = "Ok" =>
        \A i, j \in 1..Len(result.value.entities) :
            i # j => result.value.entities[i].name # result.value.entities[j].name

\* what the claim of transparent fallback asks of one step
Claimed(parsed, fallback) == IF parsed.tag = "Ok" THEN parsed.value ELSE fallback.items

\* C5: with the language model enabled, for entities, relationships and
\* concepts: when the request fails (network error, error status,
\* undecodable body) or the reply cannot be parsed into the expected array,
\* the step yields the pattern extractor's output and extract_from_text still
\* succeeds; when the reply parses, the parsed facts are used, even when the
\* array is empty.
FallbackOrParsed ==
    (op = "extract" /\ use_llm) =>
        /\ pc # "panicked"
        /\ pc = "extracted" => result.tag = "Ok"
        /\ pc = "relationships" =>
             entities =
               Claimed(IF llm_result.tag = "Ok"
                       THEN parse_entities_from_llm_response(llm_result.value, rng, 0)
                       ELSE llm_result,
                       extract_entities_with_patterns(processed_text, rng, 0))
        /\ (pc = "concepts" /\ requests[Len(requests)] = "relationships") =>
             relationships =
               Claimed(IF llm_result.tag = "Ok"
                       THEN parse_relationships_from_llm_response(
                                llm_result.value, entities, rng,
                                uuid_n - Len(relationships))
                       ELSE llm_result,
                       extract_relationships_with_patterns(
                           processed_text, entities, rng, uuid_n - Len(relationships)))
        /\ pc = "finish" =>
             concepts =
               Claimed(IF llm_result.tag = "Ok"
                       THEN parse_concepts_from_llm_response(llm_result.value, rng,
                                                             uuid_n - Len(concepts))
                       ELSE llm_result,
                       extract_concepts_with_patterns(processed_text, rng,
                                                      uuid_n - Len(concepts)))

\* C6: for every response text of the endpoint (a ']' before the first '[',
\* only one of the two brackets, ...) the entity, relationship and concept
\* steps complete with a value and never panic.
ExtractionNeverPanics == pc # "panicked"

\* C7: extract_with_deep_analysis with use_llm false returns an
\* EntityExtraction error at once: no request is issued, no phase runs, no
\* ExtractionResult is returned.
DeepAnalysisRefusedWithoutLlm ==
    (op = "deep" /\ ~use_llm) =>
        /\ pc = "failed"
        /\ result = ErrResult("EntityExtraction")
        /\ requests = <<>>
        /\ in_flight = 0
        /\ uuid_n = 0
        /\ entities = <<>>
        /\ relationships = <<>>
        /\ concepts = <<>>
        /\ graph = None

\* extract_with_deep_analysis has returned with use_llm false
DeepAnalysisRefused == op = "deep" /\ ~use_llm /\ pc = "failed"

\* The reply is commentary, '[', a schema-valid element list, ']', commentary:
\* the '[' at token a is the first of the reply and the ']' at token b closes
\* the array; clean: no ']' follows the array.
Framed(reply, a, b, fields, clean) ==
    /\ a < b
    /\ reply[a].t = "lb"
    /\ reply[b].t = "rb"
    /\ \A i \in 1..(a - 1) : reply[i].t # "lb"
    /\ clean => \A i \in (b + 1)..Len(reply) : reply[i].t # "rb"
    /\ IsElementList(SubSeq(reply, a + 1, b - 1), fields)

\* the objects of the array
Elements(reply, a, b) ==
    [k \in 1..((b - a) \div 2) |-> reply[a + 2 * k - 1].v]

StepFields ==
    CASE pc = "relationships" -> LlmEntityFields
      [] pc = "concepts"      -> LlmRelationshipFields
      [] OTHER                -> LlmConceptFields

\* the step that has just completed yields exactly these elements
Yields(elems) ==
    CASE pc = "relationships" ->
           /\ Len(entities) = Len(elems)
           /\ \A k \in 1..Len(elems) :
                /\ entities[k].name = elems[k].name
                /\ entities[k].entity_type = llm_entity_type(elems[k].type)
                /\ entities[k].confidence = elems[k].confidence
      [] pc = "concepts" ->
           /\ Len(relationships) = Len(elems)
           /\ \A k \in 1..Len(elems) :
                /\ relationships[k].label = elems[k].relationship
                /\ relationships[k].confidence = elems[k].confidence
      [] pc = "finish" ->
           /\ Len(concepts) = Len(elems)
           /\ \A k \in 1..Len(elems) :
                /\ concepts[k].name = elems[k].name
                /\ concepts[k].description = elems[k].description
                /\ concepts[k].confidence = elems[k].confidence
      [] OTHER -> FALSE

StepDone == pc \notin {"entities_resume", "relationships_resume", "concepts_resume"}

\* C8, as stated: a reply that is one schema-valid array preceded and/or
\* followed by arbitrary commentary parses to exactly the elements of the
\* array, whatever the commentary contains.
ArrayWithAnyCommentaryParses ==
    (StepDone /\ llm_result.tag = "Ok") =>
        \A a, b \in 1..Len(llm_result.value) :
            Framed(llm_result.value, a, b, StepFields, FALSE)
                => Yields(Elements(llm_result.value, a, b))

\* C8, amended: a reply that is one schema-valid array preceded by commentary
\* without '[' and followed by commentary without ']' parses to exactly the
\* elements of the array (no fallback).
ArrayWithCleanCommentaryParses ==
    (StepDone /\ llm_result.tag = "Ok") =>
        \A a, b \in 1..Len(llm_result.value) :
            Framed(llm_result.value, a, b, StepFields, TRUE)
                => Yields(Elements(llm_result.value, a, b))

\* a step has parsed an array of one element that commentary follows
ParsedArrayBeforeCommentary ==
    /\ StepDone
    /\ llm_result.tag = "Ok"
    /\ \E a, b \in 1..Len(llm_result.value) :
         /\ Framed(llm_result.value, a, b, StepFields, TRUE)
         /\ b < Len(llm_result.value)
         /\ b - a > 1
         /\ Yields(Elements(llm_result.value, a, b))

\* An identifier without the state of the random generator it was drawn
\* from: the position of the draw in its run.
Draw(id) == id[2]

DrawsOfAttributes(attributes) ==
    [j \in 1..Len(attributes) |-> [attributes[j] EXCEPT !.id = Draw(@)]]

DrawsOfEntities(es) ==
    [k \in 1..Len(es) |->
        [es[k] EXCEPT !.id = Draw(@), !.attributes = DrawsOfAttributes(@)]]

DrawsOfRelationships(rs) ==
    [k \in 1..Len(rs) |->
        [rs[k] EXCEPT !.id = Draw(@), !.source_entity_id = Draw(@),
                      !.target_entity_id = Draw(@)]]

DrawsOfConcepts(cs) == [k \in 1..Len(cs) |-> [cs[k] EXCEPT !.id = Draw(@)]]

BothRunsDone == prev_result.tag = "Ok" /\ result.tag = "Ok"

NodesOfType(nodes, node_type) == {i \in 1..Len(nodes) : nodes[i].node_type = node_type}

\* C10: after the hierarchical layout every Entity node has y = -200, every
\* Concept node y = 0, every Attribute node y = 200, and in each band the x
\* values are symmetric around 0 (for every node at x there is a node of the
\* band at -x), for every band size >= 1 and every spacing.
HierarchicalBandsSymmetric ==
    (pc = "done" /\ config.layout.algorithm = "hierarchical") =>
        \A i \in 1..Len(graph.value.nodes) :
            /\ graph.value.nodes[i].y = Lin(BandY(graph.value.nodes[i].node_type))
            /\ graph.value.nodes[i].x.some
            /\ \E j \in NodesOfType(graph.value.nodes, graph.value.nodes[i].node_type) :
                 graph.value.nodes[j].x.v = -graph.value.nodes[i].x.v

\* the step of apply_layout
LayoutStep == pc = "built" /\ pc' = "done"

\* C11: apply_layout under the algorithm name "force", or under any name
\* other than "hierarchical" and "circular", returns success and leaves the
\* x and the y of every node unset, as build_graph produced them.
ForceLayoutLeavesCoordinatesUnset ==
    [][(LayoutStep /\ config.layout.algorithm \notin {"hierarchical", "circular"}) =>
          /\ graph'.tag = "Ok"
          /\ \A k \in 1..Len(graph'.value.nodes) :
                /\ graph'.value.nodes[k].x = NoCoord
                /\ graph'.value.nodes[k].y = NoCoord
                /\ graph'.value.nodes[k].x = graph.value.nodes[k].x
                /\ graph'.value.nodes[k].y = graph.value.nodes[k].y]_vars

\* a graph of several nodes laid out under an unknown algorithm name
UnknownAlgorithmLaidOut ==
    /\ pc = "done"
    /\ config.layout.algorithm = "grid"
    /\ Len(graph.value.nodes) >= 3
    /\ \A k \in 1..Len(graph.value.nodes) : ~graph.value.nodes[k].x.some

\* C12: the circular layout of a graph without nodes returns success and
\* modifies nothing; on N >= 1 nodes it sets the x and the y of every node,
\* whatever its type, to the point of radius 300 at angle i * 2*pi/N, i the
\* index of the node in the list, from 0.
CircularLayoutByListIndex ==
    [][(LayoutStep /\ config.layout.algorithm = "circular") =>
          /\ graph'.tag = "Ok"
          /\ Len(graph.value.nodes) = 0 => graph' = graph
          /\ Len(graph'.value.nodes) = Len(graph.value.nodes)
          /\ \A k \in 1..Len(graph'.value.nodes) :
                /\ graph'.value.nodes[k].x.some /\ graph'.value.nodes[k].y.some
                /\ graph'.value.nodes[k].x =
                       Polar("cos", 300, k - 1, Len(graph.value.nodes))
                /\ graph'.value.nodes[k].y =
                       Polar("sin", 300, k - 1, Len(graph.value.nodes))]_vars

\* a circle of entity, attribute and concept nodes
CircleOfAllNodeTypes ==
    /\ pc = "done"
    /\ config.layout.algorithm = "circular"
    /\ {graph.value.nodes[k].node_type : k \in 1..Len(graph.value.nodes)}
          = {"Entity", "Attribute", "Concept"}
    /\ graph.value.nodes[2].x = Polar("cos", 300, 1, Len(graph.value.nodes))

\* the graph with the coordinates of its nodes unset
WithoutCoordinates(g) ==
    [g EXCEPT !.nodes = [k \in 1..Len(g.nodes) |->
                            [g.nodes[k] EXCEPT !.x = NoCoord, !.y = NoCoord]]]

\* C13: under every algorithm name apply_layout changes nothing but the x
\* and the y of nodes: the length and the order of the node list, every other
\* field of a node, the edge list, the config and the metadata stay as they
\* were.
LayoutChangesOnlyCoordinates ==
    [][LayoutStep =>
          /\ graph'.tag = "Ok"
          /\ WithoutCoordinates(graph'.value) = WithoutCoordinates(graph.value)
          /\ graph'.value.edges = graph.value.edges
          /\ graph'.value.config = graph.value.config
          /\ graph'.value.metadata = graph.value.metadata]_vars

\* a graph with edges whose nodes the hierarchical layout has placed
PlacedGraphWithEdges ==
    /\ pc = "done"
    /\ config.layout.algorithm = "hierarchical"
    /\ Len(graph.value.nodes) >= 3
    /\ Len(graph.value.edges) >= 1
    /\ \A k \in 1..Len(graph.value.nodes) : graph.value.nodes[k].x.some

\* the place of a fact type in the call sequence of extract_from_text
RequestRank(kind) ==
    CASE kind = "entities" -> 1 [] kind = "relationships" -> 2 [] kind = "concepts" -> 3

\* C14: during one extract_from_text invocation with LLM enabled at most one
\* request is outstanding at any time; requests are issued in the order
\* entities, relationships, concepts, each by the step of its fact type and
\* only when no request is outstanding (the previous step, fallback included,
\* has returned); a fact type issues at most one request, so an invocation
\* issues at most three.
RequestsSequential ==
    /\ [](/\ in_flight \in {0, 1}
          /\ in_flight = 1 <=> pc \in {"entities_await", "relationships_await",
                                        "concepts_await"}
          /\ Len(requests) <= 3
          /\ \A i, j \in 1..Len(requests) :
                i < j => RequestRank(requests[i]) < RequestRank(requests[j]))
    /\ [][requests' # requests =>
             /\ in_flight = 0
             /\ pc \in {"entities", "relationships", "concepts"}
             /\ requests' = Append(requests, pc)
             /\ in_flight' = 1]_vars

\* an extract_from_text invocation that sent its three requests and returned
ThreeRequestsIssued ==
    /\ op = "extract"
    /\ use_llm
    /\ pc = "extracted"
    /\ requests = <<"entities", "relationships", "concepts">>
    /\ in_flight = 0

\* the phase of extract_with_deep_analysis a position belongs to: 0 before
\* the call, 5 for the metadata and the return, 6 after the return
PhaseOf(p) ==
    CASE p = "idle" -> 0
      [] p \in {"entities", "entities_await", "entities_resume", "relationships",
                "relationships_await", "relationships_resume", "concepts",
                "concepts_await", "concepts_resume"} -> 1
      [] p = "phase2" -> 2
      [] p = "phase3" -> 3
      [] p = "phase4" -> 4
      [] p = "deep_finish" -> 5
      [] OTHER -> 6

\* the elements of t after its first Len(s)
Appended(s, t) == SubSeq(t, Len(s) + 1, Len(t))

\* t is s followed by more elements
ExtendedBy(s, t) == Len(s) <= Len(t) /\ SubSeq(t, 1, Len(s)) = s

IdsOf(items) == {items[k].id : k \in 1..Len(items)}

\* C15: deep analysis runs its phases in the order 1, 2, 3, 4, each after
\* the previous one has completed: phase 2 appends relationships between
\* the phase-1 entities, phase 3 replaces the entities by the enriched ones,
\* phase 4 appends relationships from the phase-1 concepts to the enriched
\* entities, and the returned list is the phase-1 relationships followed by
\* those of phase 2, then those of phase 4.
DeepPhasesInOrder ==
    [][(op = "deep" /\ pc # "panicked" /\ pc' # "panicked" /\ pc' # "failed") =>
          /\ PhaseOf(pc') \in {PhaseOf(pc), PhaseOf(pc) + 1}
          /\ PhaseOf(pc) \in 2..5 => PhaseOf(pc') = PhaseOf(pc) + 1
          /\ PhaseOf(pc) = 2 =>
                /\ ExtendedBy(relationships, relationships')
                /\ Appended(relationships, relationships') =
                      extract_deep_relationships_with_llm(processed_text, entities,
                                                          rng, uuid_n).items
                /\ \A k \in (Len(relationships) + 1)..Len(relationships') :
                      /\ relationships'[k].source_entity_id \in IdsOf(entities)
                      /\ relationships'[k].target_entity_id \in IdsOf(entities)
                /\ entities' = entities /\ concepts' = concepts
          /\ PhaseOf(pc) = 3 =>
                /\ entities' = enhance_entities_with_context(processed_text, entities,
                                                             rng, uuid_n).items
                /\ relationships' = relationships /\ concepts' = concepts
          /\ PhaseOf(pc) = 4 =>
                /\ ExtendedBy(relationships, relationships')
                /\ Appended(relationships, relationships') =
                      extract_concept_relationships(concepts, entities, rng, uuid_n).items
                /\ \A k \in (Len(relationships) + 1)..Len(relationships') :
                      /\ relationships'[k].source_entity_id \in IdsOf(concepts)
                      /\ relationships'[k].target_entity_id \in IdsOf(entities)
                /\ entities' = entities /\ concepts' = concepts
          /\ PhaseOf(pc) = 5 =>
                /\ result'.tag = "Ok"
                /\ result'.value.relationships = relationships
                /\ result'.value.entities = entities
                /\ result'.value.concepts = concepts
                /\ result'.value.metadata.confidence_threshold = 600]_vars

\* a deep analysis whose result holds, in this order, a phase-1 relationship,
\* a phase-2 relationship and a phase-4 relationship, and an entity that
\* phase 3 has enriched
DeepResultOfAllPhases ==
    /\ op = "deep"
    /\ pc = "extracted"
    /\ \E a, b, c \in 1..Len(result.value.relationships) :
          /\ a < b /\ b < c
          /\ result.value.relationships[a].confidence \notin {650, 750}
          /\ result.value.relationships[b].label = "manages"
          /\ result.value.relationships[c].label = "relates to"
          /\ result.value.relationships[c].source_entity_id \in IdsOf(result.value.concepts)
    /\ \E k \in 1..Len(result.value.entities) :
          \E j \in 1..Len(result.value.entities[k].attributes) :
              result.value.entities[k].attributes[j].name = "contextual_role"

HasNameAttribute(entity) ==
    \E j \in 1..Len(entity.attributes) :
        /\ entity.attributes[j].name = "name"
        /\ entity.attributes[j].value = entity.name
        /\ entity.attributes[j].confidence = 1000

\* C16: every entity of every extraction result, pattern-sourced or
\* LLM-sourced, before and after the enrichment of deep analysis, carries an
\* attribute named "name" whose value is the name of the entity and whose
\* confidence is 1.0.
EveryEntityHasNameAttribute ==
    /\ \A k \in 1..Len(entities) : HasNameAttribute(entities[k])
    /\ result.tag = "Ok" =>
          \A k \in 1..Len(result.value.entities) :
              HasNameAttribute(result.value.entities[k])

EntityTypeVariants == {"Person", "Place", "Organization", "Event", "Product", "Concept"}

\* the type string of the k-th object of the parsed reply
TypeSent(k) == llm_result.value[2 * k].v.type

\* the entities are those parsed from the reply in llm_result
EntitiesParsed ==
    /\ pc = "relationships"
    /\ llm_result.tag = "Ok"
    /\ Len(entities) = 2
    /\ Len(llm_result.value) = 5

\* C17: a type string equal, ignoring case, to the name of an EntityType
\* variant (Person, Place, Organization, Event, Product, Concept) is mapped
\* to that variant; every other string is mapped to Other carrying the
\* string in its original case.
TypeMappedToVariant ==
    EntitiesParsed =>
        \A k \in 1..2 :
            IF \E v \in EntityTypeVariants : to_lowercase(v) = to_lowercase(TypeSent(k))
            THEN entities[k].entity_type =
                   EntityType(CHOOSE v \in EntityTypeVariants :
                                 to_lowercase(v) = to_lowercase(TypeSent(k)))
            ELSE entities[k].entity_type = Other(TypeSent(k))

\* C17, as the code has it: person, place and organization, in any case,
\* are mapped to their variants; system, process and concept, in any case,
\* to Other carrying the capitalised word; every other string, event and
\* product among them, to Other carrying the string in its original case.
TypeMappedToPromptVocabulary ==
    EntitiesParsed =>
        \A k \in 1..2 :
            IF \E v \in {"Person", "Place", "Organization"} :
                   to_lowercase(v) = to_lowercase(TypeSent(k))
            THEN /\ entities[k].entity_type.tag \in {"Person", "Place", "Organization"}
                 /\ to_lowercase(entities[k].entity_type.tag) = to_lowercase(TypeSent(k))
                 /\ entities[k].entity_type.label = ""
            ELSE /\ entities[k].entity_type.tag = "Other"
                 /\ IF \E v \in {"System", "Process", "Concept"} :
                           to_lowercase(v) = to_lowercase(TypeSent(k))
                    THEN /\ entities[k].entity_type.label \in {"System", "Process", "Concept"}
                         /\ to_lowercase(entities[k].entity_type.label)
                               = to_lowercase(TypeSent(k))
                    ELSE entities[k].entity_type.label = TypeSent(k)

\* a reply with an upper-case variant name and an unlisted type
UpperCaseAndUnlistedTypesParsed ==
    /\ EntitiesParsed
    /\ TypeSent(1) = "ORGANIZATION"
    /\ entities[1].entity_type = EntityType("Organization")
    /\ TypeSent(2) = "Event"
    /\ entities[2].entity_type = Other("Event")

\* the pattern extractor has returned the relationships of the text
PatternRelationshipsFound == ~use_llm /\ pc \in {"concepts", "finish", "extracted"}

\* C18: in pattern mode every relationship connects two distinct entities
\* found in the same sentence (the sentence index of both is that of the
\* relationship), its source is the entity inserted earlier in the entity
\* list and its target the one inserted later, and a sentence yields at most
\* one relationship per pair of entities, however many relationship patterns
\* match the substring that spans the pair.
RelationshipsWithinSentences ==
    PatternRelationshipsFound =>
        /\ \A k \in 1..Len(relationships) :
              \E i, j \in 1..Len(entities) :
                  /\ i < j
                  /\ entities[i].id # entities[j].id
                  /\ relationships[k].source_entity_id = entities[i].id
                  /\ relationships[k].target_entity_id = entities[j].id
                  /\ entities[i].position.sentence_index
                        = relationships[k].position.sentence_index
                  /\ entities[j].position.sentence_index
                        = relationships[k].position.sentence_index
        /\ \A k, m \in 1..Len(relationships) :
              (/\ relationships[k].source_entity_id = relationships[m].source_entity_id
               /\ relationships[k].target_entity_id = relationships[m].target_entity_id
               /\ relationships[k].position.sentence_index
                     = relationships[m].position.sentence_index)
              => k = m

\* a text whose first sentence matches both relationship patterns between
\* its two entities and whose second sentence relates an entity of the
\* second entity pattern to two entities of the first
RelationshipsOfTwoSentences ==
    /\ PatternRelationshipsFound
    /\ processed_text.sentences
         = <<"Alice is related to Bob", "a user has Bob and Carol is here">>
    /\ \A p \in 1..Len(relationship_patterns) :
          is_match(relationship_patterns[p], "Alice is related to Bob")
    /\ Len(entities) = 4
    /\ Len(relationships) = 2
    /\ relationships[1].position.sentence_index = 0
    /\ relationships[2].position.sentence_index = 1
    /\ relationships[2].target_entity_id = entities[4].id
    /\ entities[4].name = "user"

\* C19: with the default patterns and use_llm false, the text of the single
\* sentence "TechCorp is a company." yields an entity named "TechCorp",
\* classified Organization, of confidence 0.7.
TechCorpIsOrganization ==
    (/\ ~use_llm
     /\ processed_text.sentences = <<"TechCorp is a company">>
     /\ pc \in {"relationships", "concepts", "finish", "extracted"}) =>
        \E k \in 1..Len(entities) :
            /\ entities[k].name = "TechCorp"
            /\ entities[k].entity_type = EntityType("Organization")
            /\ entities[k].confidence = 700

\* the path under which export number k of the same file name is written
\* when the k - 1 paths before it are taken: the name itself, then _01, _02..
SerializedName(name, k) ==
    IF k = 0 THEN join(networks_dir, name)
    ELSE join(networks_dir, file_stem(name) \o "_" \o two_digits(k) \o "."
                            \o extension(name).value)

\* C20: every export writes its file inside the directory 0_networks under
\* the requested file name and never overwrites an existing file: when the
\* name is taken it writes <stem>_NN.<ext> with the smallest NN >= 1 whose
\* path does not exist; so after any sequence of exports the written paths
\* are pairwise distinct and every earlier file is intact.
ExportsNeverOverwrite ==
    /\ [](/\ \A i, j \in 1..Len(exports) :
               (i < j /\ exports[i].result.tag = "Ok" /\ exports[j].result.tag = "Ok")
               => exports[i].result.file_path # exports[j].result.file_path
          /\ \A i \in 1..Len(exports) :
               exports[i].result.tag = "Ok" =>
                   /\ exports[i].result.file_path \in DOMAIN files
                   /\ files[exports[i].result.file_path] = exports[i].result.content)
    /\ [][(exports' # exports /\ exports'[Len(exports')].result.tag = "Ok") =>
             LET written == exports'[Len(exports')].result.file_path
                 name == file_name(exports'[Len(exports')].requested).value
             IN /\ written \notin DOMAIN files
                /\ DOMAIN files' = DOMAIN files \cup {written}
                /\ \A p \in DOMAIN files : files'[p] = files[p]
                /\ \E k \in 0..99 :
                      /\ written = SerializedName(name, k)
                      /\ \A d \in 0..(k - 1) : SerializedName(name, d) \in DOMAIN files]_vars

\* three exports under the file name graph.html into a directory that holds
\* graph.html and graph_01.html: graph_02, graph_03 and graph_04 are written
ThreeExportsOfOneName ==
    /\ Len(exports) = 3
    /\ \A i \in 1..3 : exports[i].requested \in {"graph.html", "out/graph.html"}
    /\ exports[1].result.file_path = "0_networks/graph_02.html"
    /\ exports[2].result.file_path = "0_networks/graph_03.html"
    /\ exports[3].result.file_path = "0_networks/graph_04.html"
    /\ files["0_networks/graph.html"] = EarlierContent
    /\ files["0_networks/graph_01.html"] = EarlierContent

(***************************************************************************)
(* The stopword options of the command line.                               *)
(***************************************************************************)
\* the command line without the arguments equal to flag
Without(argv, flag) == LET Other_(a) == a # flag IN SelectSeq(argv, Other_)

\* the elements of a sequence
Range(s) == {s[i] : i \in 1..Len(s)}

HasArgument(argv, flag) == \E i \in 1..Len(argv) : argv[i] = flag

\* the word count that an analyze run reported, as a set (empty: none reported)
ReportedWordCounts == {stdout[i].value : i \in {j \in 1..Len(stdout) : stdout[j].line = "Word count"}}

\* the text an analyze run of the command line reads, "" if it reads none
InputTextOf(argv) ==
    LET Read(loaded) == IF loaded.tag = "Ok" THEN loaded.value ELSE ""
    IN Read(LoadInput(Cli_parse(argv)))

\* C21: an analyze run that is given --no-remove-stopwords besides arguments
\* that are accepted without it, on a readable text with at least one stopword,
\* exits with status 0 and reports a word count strictly greater than the count
\* with the default stopword removal.
NoRemoveStopwordsAccepted ==
    (/\ pc = "exited"
     /\ args[1] = "analyze"
     /\ HasArgument(args, "--no-remove-stopwords")
     /\ Cli_parse(Without(args, "--no-remove-stopwords")).ok
     /\ InputTextOf(Without(args, "--no-remove-stopwords")) # ""
     /\ \E w \in Range(extract_words(clean_text(InputTextOf(Without(args, "--no-remove-stopwords"))))) :
            w \in default_english_stopwords)
    => /\ exit_code.tag = "Some"
       /\ exit_code.value = 0
       /\ \E n \in ReportedWordCounts :
              n > process_text(TextProcessor_new,
                               InputTextOf(Without(args, "--no-remove-stopwords"))).word_count

(***************************************************************************)
(* The keyword cascade of classify_relationship_type, under                *)
(* extract_from_text with the default patterns and use_llm false, on texts *)
(* of one sentence that names two entities around a keyword.               *)
(***************************************************************************)
\* the arms of classify_relationship_type, in order: the type and its keywords
RelationshipCascade ==
    << [type |-> "Has",         keywords |-> {"has", "have", "owns"}],
       [type |-> "IsA",         keywords |-> {"is", "are", "was", "were"}],
       [type |-> "PartOf",      keywords |-> {"part of", "belongs"}],
       [type |-> "ConnectedTo", keywords |-> {"connected", "linked"}],
       [type |-> "Uses",        keywords |-> {"uses", "utilizes"}],
       [type |-> "Creates",     keywords |-> {"creates", "generates"}],
       [type |-> "Influences",  keywords |-> {"influences", "affects"}] >>

BetweenBobAndAlice(words) == "Bob " \o words \o " Alice"

CascadeSentencePool ==
    {BetweenBobAndAlice(kw) :
        kw \in UNION {RelationshipCascade[i].keywords : i \in 1..Len(RelationshipCascade)}}
    \cup {BetweenBobAndAlice("related to"), BetweenBobAndAlice("linked to"),
          BetweenBobAndAlice("includes and uses"), "Chris belongs to Alice"}

InitCascade ==
    \E ss \in UNION {[1..k -> CascadeSentencePool] : k \in 0..1} :
        InitSeeded(GraphConfig(FALSE, "hierarchical", 200), ProcessedText(ss), 0)

SpecCascade == InitCascade /\ [][NextPatterns]_vars

\* a relationship of the type from the entity named source to the one named target
RelationshipOfType(type, source, target) ==
    \E k \in 1..Len(relationships), i, j \in 1..Len(entities) :
        /\ relationships[k].relationship_type = RelationshipType(type)
        /\ relationships[k].source_entity_id = entities[i].id
        /\ relationships[k].target_entity_id = entities[j].id
        /\ entities[i].name = source
        /\ entities[j].name = target

\* C22: a finished pattern extraction of a sentence that holds only one
\* keyword of the cascade as the words between two entity names yields a
\* relationship of that keyword's type between the two entities (RelatedTo
\* when the words are "related to").
EachCascadeTypeProduced ==
    pc = "extracted" =>
        /\ \A i \in 1..Len(RelationshipCascade) :
              \A kw \in RelationshipCascade[i].keywords :
                  processed_text.sentences = <<BetweenBobAndAlice(kw)>>
                  => RelationshipOfType(RelationshipCascade[i].type, "Bob", "Alice")
        /\ processed_text.sentences = <<BetweenBobAndAlice("related to")>>
              => RelationshipOfType("RelatedTo", "Bob", "Alice")

(***************************************************************************)
(* extract_from_text, use_llm false, under a configuration whose patterns  *)
(* match one-letter and two-letter words and the white space after a word. *)
(***************************************************************************)
ShortEntityPatterns ==
    << \* \b[A-Z][a-z]*\s*
       <<WB, One("upper"), Star(<<One("lower")>>), Star(<<One("space")>>)>>,
       \* \b(?:user|Bob)\b
       <<WB, Alt(<<"user", "Bob">>), WB>> >>

ShortConceptPatterns ==
    << \* \b(?:ai|idea|system)\b
       <<WB, Alt(<<"ai", "idea", "system">>), WB>>,
       \* \b(?:system|ml|plan)\b
       <<WB, Alt(<<"system", "ml", "plan">>), WB>> >>

ShortPatternConfig ==
    [GraphConfig(FALSE, "hierarchical", 200) EXCEPT
        !.extraction.entity_patterns = ShortEntityPatterns,
        !.extraction.concept_patterns = ShortConceptPatterns]

ShortSentencePool ==
    {"A user asked Bob about ai and an idea",
     "Bob has an idea of a system and a system",
     "Bob Bob saw a user",
     "the plan uses ml",
     "I like Carol"}

InitShort ==
    \E ss \in UNION {[1..k -> ShortSentencePool] : k \in 0..MaxSentences} :
        InitSeeded(ShortPatternConfig, ProcessedText(ss), 0)

SpecShort == InitShort /\ [][NextPatterns]_vars

\* every match of every pattern in every sentence, with its trimmed text
AllMatches(patterns, sentences) ==
    UNION {UNION {{[sentence_idx |-> i - 1, pattern |-> k, start |-> m.start, end |-> m.end,
                    text |-> trim(Slice(sentences[i], m.start, m.end))] :
                      m \in Range(find_iter(patterns[k], sentences[i]))} :
                  k \in 1..Len(patterns)} :
           i \in 1..Len(sentences)}

\* a is scanned before b: an earlier sentence, else an earlier pattern, else
\* further left
ScannedBefore(a, b) ==
    \/ a.sentence_idx < b.sentence_idx
    \/ a.sentence_idx = b.sentence_idx /\ a.pattern < b.pattern
    \/ a.sentence_idx = b.sentence_idx /\ a.pattern = b.pattern /\ a.start < b.start

\* the matches of at least min bytes that no match of the same text precedes
FirstOccurrences(ms, min) ==
    {m \in ms : Len(m.text) >= min /\ \A o \in ms : o.text = m.text => ~ScannedBefore(o, m)}

\* the items are the given matches, one each, in the order of the scan, each
\* with the position of its match
KeptAre(items, firsts) ==
    /\ Len(items) = Cardinality(firsts)
    /\ \A k \in 1..Len(items) :
          \E m \in firsts :
              /\ items[k].name = m.text
              /\ items[k].position = SomePos(m.start, m.end, m.sentence_idx)
    /\ \A j, k \in 1..Len(items) :
          j < k => \E a, b \in firsts :
                      /\ a.text = items[j].name
                      /\ b.text = items[k].name
                      /\ ScannedBefore(a, b)

\* C23: in pattern mode the entities are exactly the first occurrences, in
\* the order sentence, pattern, offset, of the trimmed matches of at least 2
\* bytes, and the concepts those of at least 3 bytes, each with the position
\* and the sentence index of that first occurrence.
FirstOccurrencesKept ==
    /\ (~use_llm /\ pc \in {"relationships", "concepts", "finish", "extracted"})
       => KeptAre(entities,
                  FirstOccurrences(AllMatches(entity_patterns, processed_text.sentences), 2))
    /\ (~use_llm /\ pc \in {"finish", "extracted"})
       => KeptAre(concepts,
                  FirstOccurrences(AllMatches(concept_patterns, processed_text.sentences), 3))

\* a run on two sentences with a one-letter entity match ("A"), a two-letter
\* concept match ("ai"), a match with white space to trim ("Bob "), and
\* literals that recur in the sentence, under the next pattern and in the
\* next sentence
ShortAndRepeatedMatchesDropped ==
    /\ pc = "extracted"
    /\ processed_text.sentences = <<"A user asked Bob about ai and an idea",
                                    "Bob has an idea of a system and a system">>
    /\ Len(entities) = 2
    /\ entities[1].name = "Bob"
    /\ entities[1].position = SomePos(13, 17, 0)
    /\ entities[2].name = "user"
    /\ Len(concepts) = 2
    /\ concepts[1].name = "idea"
    /\ concepts[1].position.sentence_index = 0
    /\ concepts[2].name = "system"
    /\ concepts[2].position = SomePos(21, 27, 1)

\* the pairs <<entity id, attribute id>> of the attributes not named "name",
\* entity by entity, in the order of the lists
RECURSIVE AttributePairs(_, _)
AttributePairs(ents, k) ==
    IF k > Len(ents) THEN <<>>
    ELSE LET Shown(a) == a.name # "name"
             Pairs(attrs) == [j \in 1..Len(attrs) |-> <<ents[k].id, attrs[j].id>>]
         IN Pairs(SelectSeq(ents[k].attributes, Shown)) \o AttributePairs(ents, k + 1)

\* the ids of the items, in the order of the list
IdSeq(items) == [k \in 1..Len(items) |-> items[k].id]

\* the ids of the nodes of a type, in the order of the node list
NodeIdsOfType(g, node_type) ==
    LET OfType(n) == n.node_type = node_type
        Ids(ns) == [k \in 1..Len(ns) |-> ns[k].id]
    IN Ids(SelectSeq(g.nodes, OfType))

\* the pairs <<from, to>> of the edges of a type, in the order of the edge list
EdgeEndsOfType(g, edge_type) ==
    LET OfType(e) == e.edge_type = edge_type
        Ends(es) == [k \in 1..Len(es) |-> <<es[k].from, es[k].to>>]
    IN Ends(SelectSeq(g.edges, OfType))

\* C24: in the graph build_graph returns, the Entity nodes are the entities
\* and the Concept nodes the concepts of the extraction result, one node each
\* under the id of its source; the Attribute nodes and the EntityAttribute
\* edges (entity id to attribute id) are one each per entity attribute not
\* named "name"; the EntityRelationship edges are the relationships, one edge
\* each; and no node is of type Relationship.
OneNodeOrEdgePerFact ==
    graph.tag = "Ok" =>
        /\ NodeIdsOfType(graph.value, "Entity") = IdSeq(result.value.entities)
        /\ NodeIdsOfType(graph.value, "Concept") = IdSeq(result.value.concepts)
        /\ NodeIdsOfType(graph.value, "Attribute")
              = [k \in 1..Len(AttributePairs(result.value.entities, 1)) |->
                    AttributePairs(result.value.entities, 1)[k][2]]
        /\ EdgeEndsOfType(graph.value, "EntityAttribute")
              = AttributePairs(result.value.entities, 1)
        /\ EdgeEndsOfType(graph.value, "EntityRelationship")
              = [k \in 1..Len(result.value.relationships) |->
                    <<result.value.relationships[k].source_entity_id,
                      result.value.relationships[k].target_entity_id>>]
        /\ \A i \in 1..Len(graph.value.nodes) :
              graph.value.nodes[i].node_type \in {"Entity", "Concept", "Attribute"}

\* a graph of a deep analysis whose extraction result holds an entity with two
\* attributes besides its name, a concept and at least two relationships
GraphOfAttributedEntities ==
    /\ graph.tag = "Ok"
    /\ op = "deep"
    /\ \E i \in 1..Len(result.value.entities) :
          Len(result.value.entities[i].attributes) >= 3
    /\ Len(result.value.concepts) >= 1
    /\ Len(result.value.relationships) >= 2

(***************************************************************************)
(* build_graph on extraction results of two entities and one concept, with *)
(* and without text positions, near and far sentences, and names and       *)
(* descriptions that contain one another or not.                           *)
(***************************************************************************)
ConnectEntityNames == {"Bob", "Risk Team", "plan"}
ConnectConceptTexts ==
    {[name |-> "risk", description |-> "unknown"],
     [name |-> "danger", description |-> "risk"],
     [name |-> "planning", description |-> "what Bob does"],
     [name |-> "idea", description |-> "Plan"]}
EntityPositions == {NonePos, SomePos(0, 3, 0), SomePos(0, 3, 3)}
ConceptPositions == {NonePos, SomePos(4, 8, 2), SomePos(4, 8, 5)}

ConnectResult(entity_name, entity_position, concept_text, concept_position) ==
    [entities |->
        <<Entity(Uuid(0, 1), entity_name, EntityType("Person"),
                 <<Attribute(Uuid(0, 0), "name", entity_name, "Name", 1000)>>, 700,
                 entity_position),
          Entity(Uuid(0, 3), "Dave", EntityType("Person"),
                 <<Attribute(Uuid(0, 2), "name", "Dave", "Name", 1000)>>, 700,
                 SomePos(0, 4, 1))>>,
     relationships |-> <<>>,
     concepts |->
        <<Concept(Uuid(0, 4), concept_text.name, concept_text.description, 600,
                  concept_position)>>,
     metadata |-> [total_entities |-> 2, total_relationships |-> 0,
                   total_concepts |-> 1, processing_time_ms |-> 0,
                   confidence_threshold |-> 500, extraction_method |-> "LLM-llama3.2"]]

InitConnect ==
    \E entity_name \in ConnectEntityNames, entity_position \in EntityPositions,
       concept_text \in ConnectConceptTexts, concept_position \in ConceptPositions :
        /\ config = GraphConfig(TRUE, "hierarchical", 200)
        /\ processed_text = ProcessedText(<<>>)
        /\ rng = 0
        /\ uuid_n = 5
        /\ pc = "extracted"
        /\ op = "extract"
        /\ in_flight = 0
        /\ requests = <<>>
        /\ llm_result = None
        /\ entities = <<>>
        /\ relationships = <<>>
        /\ concepts = <<>>
        /\ result = OkResult(ConnectResult(entity_name, entity_position, concept_text,
                                           concept_position))
        /\ prev_result = None
        /\ graph = None
        /\ files = EmptyMap
        /\ exports = <<>>
        /\ args = <<>>
        /\ exit_code = None
        /\ stdout = <<>>

NextConnect == BuildGraph

SpecConnect == InitConnect /\ [][NextConnect]_vars

\* the number of ConceptEntity edges from the concept to the entity
ConceptEntityEdges(g, concept, entity) ==
    Cardinality({k \in 1..Len(g.edges) :
        /\ g.edges[k].edge_type = "ConceptEntity"
        /\ g.edges[k].from = concept.id
        /\ g.edges[k].to = entity.id})

BothPositioned(concept, entity) == concept.position.some /\ entity.position.some

NearSentences(concept, entity) ==
    abs_diff(concept.position.sentence_index, entity.position.sentence_index) <= 1

\* the edges of the graph from concepts to entities are one for each pair
\* that Connected admits and none for the others
ConnectedExactly(Connected(_, _)) ==
    graph.tag = "Ok" =>
        \A i \in 1..Len(result.value.concepts), j \in 1..Len(result.value.entities) :
            ConceptEntityEdges(graph.value, result.value.concepts[i], result.value.entities[j])
                = IF Connected(result.value.concepts[i], result.value.entities[j])
                  THEN 1 ELSE 0

\* C25 (amended): build_graph creates a ConceptEntity edge for a pair if and
\* only if either both have text positions and their sentence indices differ
\* by at most 1, or one of them has no position and, ignoring case, the
\* concept's description contains the entity's name or the entity's name
\* contains the concept's name; when both have positions the text match is
\* not consulted.
ConnectedByPositionOrNames ==
    LET Connected(concept, entity) ==
            IF BothPositioned(concept, entity) THEN NearSentences(concept, entity)
            ELSE \/ contains(to_lowercase(concept.description), to_lowercase(entity.name))
                 \/ contains(to_lowercase(entity.name), to_lowercase(concept.name))
    IN ConnectedExactly(Connected)

\* C25 as stated: without positions the match is between the concept's
\* description and the entity's name, in either direction.
ConnectedByPositionOrDescription ==
    LET Connected(concept, entity) ==
            IF BothPositioned(concept, entity) THEN NearSentences(concept, entity)
            ELSE \/ contains(to_lowercase(concept.description), to_lowercase(entity.name))
                 \/ contains(to_lowercase(entity.name), to_lowercase(concept.description))
    IN ConnectedExactly(Connected)

\* a graph of a concept of sentence 2 with an edge to the entity of sentence 3
\* whose name its description does not hold, and to the entity of sentence 1
ConceptNextToEntityConnected ==
    /\ graph.tag = "Ok"
    /\ result.value.concepts[1].position = SomePos(4, 8, 2)
    /\ result.value.entities[1].position = SomePos(0, 3, 3)
    /\ result.value.entities[1].name = "Risk Team"
    /\ result.value.concepts[1].description = "unknown"
    /\ ConceptEntityEdges(graph.value, result.value.concepts[1], result.value.entities[1]) = 1
    /\ ConceptEntityEdges(graph.value, result.value.concepts[1], result.value.entities[2]) = 1

\* the number of attributes of the entity with the name
AttributesNamed(entity, name) ==
    Cardinality({k \in 1..Len(entity.attributes) : entity.attributes[k].name = name})

\* a keyword of the patterns stands next to the entity's name, a blank
\* between them, in the lower-cased cleaned text
KeywordAdjacent(patterns, entity_name) ==
    \E i \in 1..Len(patterns) :
        \/ contains(to_lowercase(processed_text.cleaned_text),
                    to_lowercase(entity_name) \o " " \o patterns[i].pattern)
        \/ contains(to_lowercase(processed_text.cleaned_text),
                    patterns[i].pattern \o " " \o to_lowercase(entity_name))

\* C26: after phase 3 of a deep analysis every entity has at most one
\* "contextual_role" and at most one "domain" attribute, and has each only
\* when a keyword of that category stands next to the entity's name in the
\* lower-cased text.
ContextAttributesOnlyWhenAdjacent ==
    (op = "deep" /\ pc = "phase4") =>
        \A k \in 1..Len(entities) :
            /\ AttributesNamed(entities[k], "contextual_role") <= 1
            /\ AttributesNamed(entities[k], "domain") <= 1
            /\ AttributesNamed(entities[k], "contextual_role") = 1
                  => KeywordAdjacent(role_patterns, entities[k].name)
            /\ AttributesNamed(entities[k], "domain") = 1
                  => KeywordAdjacent(domain_patterns, entities[k].name)

\* the edges of the graph from one id to another, of any type
EdgesBetween(g, from, to) ==
    {k \in 1..Len(g.edges) : g.edges[k].from = from /\ g.edges[k].to = to}

\* C27: in the graph built from the result of a deep analysis, at most one
\* edge leads from a concept to an entity: the relationship of phase 4 and
\* the concept-entity connection of build_graph are never both there.
OneEdgeFromConceptToEntity ==
    (op = "deep" /\ graph.tag = "Ok") =>
        \A i \in 1..Len(result.value.concepts), j \in 1..Len(result.value.entities) :
            Cardinality(EdgesBetween(graph.value, result.value.concepts[i].id,
                                     result.value.entities[j].id)) <= 1

\* C28: the context of an entity has at most two entries, and phase 3 of a
\* deep analysis keeps the number and the order of the entities and changes
\* nothing of an entity, its confidence included, except that it appends
\* attributes to the entity's attribute list.
Phase3OnlyAppendsAttributes ==
    /\ [](pc = "phase3" =>
            \A k \in 1..Len(entities) :
                Cardinality(analyze_entity_context(processed_text, entities[k].name)) <= 2)
    /\ [][(pc = "phase3" /\ pc' = "phase4") =>
             /\ Len(entities') = Len(entities)
             /\ \A k \in 1..Len(entities) :
                   /\ entities'[k].confidence = entities[k].confidence
                   /\ entities'[k] = [entities[k] EXCEPT !.attributes = entities'[k].attributes]
                   /\ ExtendedBy(entities[k].attributes, entities'[k].attributes)]_vars

\* after phase 3, an entity whose context had both entries, a role and a
\* domain, stands with the confidence 0.8 the language model gave it
EntityWithRoleAndDomain ==
    /\ op = "deep"
    /\ pc = "phase4"
    /\ \E k \in 1..Len(entities) :
          /\ AttributesNamed(entities[k], "contextual_role") = 1
          /\ AttributesNamed(entities[k], "domain") = 1
          /\ entities[k].confidence = 800

\* C29: with use_llm false no request is ever issued; with use_llm true no
\* relationship request is issued while the entity list is empty: the step
\* from the relationships to the concepts is then the pattern path, which
\* sends nothing and returns no relationship.
NoRequestWithoutLlmOrEntities ==
    /\ [](~use_llm => requests = <<>> /\ in_flight = 0)
    /\ [][(pc = "relationships" /\ entities = <<>> /\ pc' # pc) =>
             /\ pc' = "concepts"
             /\ requests' = requests
             /\ in_flight' = in_flight
             /\ relationships' = <<>>]_vars
    /\ [][(requests' # requests /\ requests'[Len(requests')] = "relationships") =>
             entities # <<>>]_vars

\* an extraction in LLM mode on a text with sentences whose entity reply
\* held an empty array: the entity and the concept request were sent, the
\* relationship request was not
RelationshipRequestSkipped ==
    /\ use_llm
    /\ op = "extract"
    /\ pc = "extracted"
    /\ processed_text.sentences # <<>>
    /\ entities = <<>>
    /\ relationships = <<>>
    /\ requests = <<"entities", "concepts">>

\* C30: the extraction_method of a returned result is "Pattern-based" when
\* use_llm is false, "LLM-<model>" for extract_from_text with use_llm true and
\* "Deep-Analysis-LLM-<model>" for extract_with_deep_analysis, whether the
\* facts were parsed from replies or came from the pattern fallback; and
\* total_entities, total_relationships and total_concepts are the lengths of
\* the three lists returned.
MethodLabelAndTotals ==
    result.tag = "Ok" =>
        /\ result.value.metadata.extraction_method
              = IF op = "deep" THEN "Deep-Analysis-LLM-" \o config.extraction.llm_model
                ELSE IF use_llm THEN "LLM-" \o config.extraction.llm_model
                ELSE "Pattern-based"
        /\ result.value.metadata.total_entities = Len(result.value.entities)
        /\ result.value.metadata.total_relationships = Len(result.value.relationships)
        /\ result.value.metadata.total_concepts = Len(result.value.concepts)

\* a result of extract_from_text in LLM mode whose entities, relationship and
\* concept all came from the pattern fallback (each has a text position) and
\* whose method is nevertheless labelled LLM-llama3.2
FallbackResultLabelledLlm ==
    /\ result.tag = "Ok"
    /\ op = "extract"
    /\ use_llm
    /\ result.value.metadata.extraction_method = "LLM-llama3.2"
    /\ result.value.metadata.total_entities >= 2
    /\ result.value.metadata.total_relationships >= 1
    /\ result.value.metadata.total_concepts >= 1
    /\ \A k \in 1..Len(result.value.entities) : result.value.entities[k].position.some
    /\ \A k \in 1..Len(result.value.relationships) :
          result.value.relationships[k].position.some
    /\ \A k \in 1..Len(result.value.concepts) : result.value.concepts[k].position.some

====
